---- MODULE Spec2Model ----
(***************************************************************************)
(* Data-Quality-Auditor-Pro: the four analyzers (DatasetProfiler,          *)
(* MissingValueAnalyzer, OutlierDetector, DataValidator) over a tabular    *)
(* dataset.                                                                *)
(*                                                                         *)
(* A cell is a record [t, n, s]: t is "num" (an integer n), "str" (a text  *)
(* s), "bool" (n is 0 or 1) or "nan" (the missing sentinel).  A dataset is *)
(* [unit, columns, dtypes, rows]: the ordered column names, the dtype tag of *)
(* each column, and the rows, each a function from column name to cell;    *)
(* unit is the denominator of its numbers (a number cell n is n / unit).   *)
(* Fractions (percentages, the quality score, thresholds) are exact        *)
(* rationals [num, den] with den > 0.                                      *)
(***************************************************************************)
EXTENDS Integers, Sequences, FiniteSets, TLC

VARIABLES
    df,                      \* the dataset snapshot handed to the analyzers
    outcome,                 \* analyzer -> "unbuilt" | "idle" | "returned" | "raised"
    profile,                 \* DatasetProfiler.profile
    warning_threshold,       \* MissingValueAnalyzer.warning_threshold
    critical_threshold,      \* MissingValueAnalyzer.critical_threshold
    missing_analysis,        \* MissingValueAnalyzer.results
    iqr_multiplier,          \* OutlierDetector.iqr_multiplier
    zscore_threshold,        \* OutlierDetector.zscore_threshold
    isolation_contamination, \* OutlierDetector.isolation_contamination
    outlier_results,         \* OutlierDetector.results
    isolation_status,        \* detect_all's try block: "not run" | "fitted" | "raised"
    earlier_results,         \* the findings a caller kept of an earlier detector
    constraints,             \* DataValidator.constraints: sequence of [column, rules]
    validation_results,      \* DataValidator.results
    cleaner_df,              \* DataCleaner.df: the working copy
    self_df,                 \* the frame DataCleaner.df names: "none" | "copy" | "caller's"
    history,                 \* DataCleaner.history
    last_call,               \* the last call of a cleaner operation, and what it started from
    pc,                      \* run_audit: the statement to execute next
    clean_data,              \* run_audit: its clean_data argument
    config,                  \* DataQualityAuditor.config
    result,                  \* run_audit: "none" | "True" | "False" | "raised"
    written                  \* the frame written to cleaned_<name>.csv

profilerState == <<profile>>
missingState == <<warning_threshold, critical_threshold, missing_analysis>>
outlierState ==
    <<iqr_multiplier, zscore_threshold, isolation_contamination, outlier_results,
      isolation_status, earlier_results>>
validatorState == <<constraints, validation_results>>

cleanerState == <<cleaner_df, self_df, history, last_call>>
auditState == <<pc, clean_data, config, result, written>>

vars ==
    <<df, outcome, profilerState, missingState, outlierState, validatorState,
      cleanerState, auditState>>

-----------------------------------------------------------------------------
(* Bounds of the model *)

MaxRows == 3

(* The operations applied to one DataCleaner *)
MaxOps == 2

-----------------------------------------------------------------------------
(* Cells *)

NaN == [t |-> "nan", n |-> 0, s |-> ""]
Num(v) == [t |-> "num", n |-> v, s |-> ""]
Str(x) == [t |-> "str", n |-> 0, s |-> x]
Bool(b) == [t |-> "bool", n |-> (IF b THEN 1 ELSE 0), s |-> ""]

isna(c) == c.t = "nan"

Max2(a, b) == IF a >= b THEN a ELSE b

Range(f) == {f[i] : i \in DOMAIN f}

RECURSIVE SeqSum(_)
SeqSum(q) == IF q = <<>> THEN 0 ELSE Head(q) + SeqSum(Tail(q))

(* A sequence without repeated elements *)
IsDict(q) == \A i, j \in DOMAIN q : q[i].column = q[j].column => i = j

-----------------------------------------------------------------------------
(* Rationals *)

Rat(a, b) == [num |-> a, den |-> b]
RatEq(x, y) == x.num * y.den = y.num * x.den
RatLt(x, y) == x.num * y.den < y.num * x.den
RatLe(x, y) == x.num * y.den <= y.num * x.den

-----------------------------------------------------------------------------
(* Datasets *)

NumericDtypes == {"int64", "float64"}

len(d) == Len(d.rows)
Columns(d) == Range(d.columns)
Column(d, col) == [i \in 1..len(d) |-> d.rows[i][col]]

(* Series.dropna() *)
DropNa(series) == SelectSeq(series, LAMBDA c : ~isna(c))

(* Series.isna().sum() *)
IsnaSum(series) == Len(series) - Len(DropNa(series))

nunique_KeepNa(series) == Cardinality(Range(series))

(* Series.nunique(): the number of distinct non-missing values *)
nunique(series) == Cardinality(Range(DropNa(series)))

(* df.isna().sum().sum(): the number of missing cells of the dataset *)
TotalMissing(d) ==
    SeqSum([k \in 1..Len(d.columns) |-> IsnaSum(Column(d, d.columns[k]))])

-----------------------------------------------------------------------------
(* The datasets the analyzers are run on *)

NumCells == {NaN, Num(20), Num(150)}
TextCells == {NaN, Str("IT"), Str("HR")}
TokenCells == {NaN, Str("30.5"), Str("not_a_number")}

CellsOf(kind) ==
    CASE kind = "numeric" -> NumCells
      [] kind = "text" -> TextCells
      [] kind = "token" -> TokenCells

(* Column layouts of the generated datasets: <<name, kind>> per column, a  *)
(* kind being "numeric", "text", or "token" (text that may spell a number) *)
Schemas ==
    { <<>>,
      << <<"age", "numeric">> >>,
      << <<"department", "text">> >>,
      << <<"age", "numeric">>, <<"salary", "numeric">> >>,
      << <<"salary", "numeric">>, <<"department", "text">> >> }

SchemaNames(schema) == [k \in 1..Len(schema) |-> schema[k][1]]
SchemaKind(schema, col) == schema[CHOOSE k \in 1..Len(schema) : schema[k][1] = col][2]

(* The dtype tag a column of the given kind gets from the values present *)
InferDtype(kind, series) ==
    IF kind # "numeric" THEN "object"
    ELSE IF \E i \in DOMAIN series : isna(series[i]) THEN "float64"
    ELSE "int64"

RowsOf(schema) ==
    { r \in [Range(SchemaNames(schema)) -> NumCells \cup TextCells \cup TokenCells] :
        \A k \in 1..Len(schema) : r[schema[k][1]] \in CellsOf(schema[k][2]) }

MakeDataset(schema, rows) ==
    [ unit    |-> 1,
      columns |-> SchemaNames(schema),
      dtypes  |-> [c \in Range(SchemaNames(schema)) |->
                     InferDtype(SchemaKind(schema, c),
                                [i \in 1..Len(rows) |-> rows[i][c]])],
      rows    |-> rows ]

(* df is one of the datasets of the given layouts, of at most MaxRows rows *)
IsGeneratedDataset(d, schemas) ==
    \E schema \in schemas : \E n \in 0..MaxRows :
        \E rows \in [1..n -> RowsOf(schema)] : d = MakeDataset(schema, rows)

(* tests/conftest.py: the base_test_data fixture, the salaries in thousands  *)
(* (the sums of squares of the statistics stay within 32-bit integers)      *)
FixtureAge == <<20, 25, 30, 35, 40, 45, 50, 55, 60, 150>>
FixtureSalary == <<Num(50), Num(52), Num(54), Num(56), Num(58),
                   Num(60), Num(62), Num(64), Num(66), NaN>>
FixtureDepartment == <<"IT", "IT", "HR", "HR", "Sales", "Sales", "IT", "IT", "HR", "IT">>
FixtureRemote == <<TRUE, TRUE, FALSE, FALSE, TRUE, FALSE, TRUE, FALSE, TRUE, TRUE>>

base_test_data ==
    [ unit    |-> 1,
      columns |-> <<"id", "age", "salary", "department", "remote">>,
      dtypes  |-> [c \in {"id", "age", "salary", "department", "remote"} |->
                     CASE c = "id" -> "int64"
                       [] c = "age" -> "int64"
                       [] c = "salary" -> "float64"
                       [] c = "department" -> "object"
                       [] c = "remote" -> "bool"],
      rows    |-> [i \in 1..10 |->
                     [c \in {"id", "age", "salary", "department", "remote"} |->
                        CASE c = "id" -> Num(i)
                          [] c = "age" -> Num(FixtureAge[i])
                          [] c = "salary" -> FixtureSalary[i]
                          [] c = "department" -> Str(FixtureDepartment[i])
                          [] c = "remote" -> Bool(FixtureRemote[i])]] ]

IsDataset(d) == IsGeneratedDataset(d, Schemas) \/ d = base_test_data

(* Twenty rows of one column, its first cell missing and its last one far  *)
(* from the others: one outlying value is 5% of the rows, and more than 5% *)
(* of the values present.                                                  *)
twenty_rows_data ==
    [ unit    |-> 1,
      columns |-> <<"age">>,
      dtypes  |-> [c \in {"age"} |-> "float64"],
      rows    |-> [i \in 1..20 |->
                     [c \in {"age"} |->
                        IF i = 1 THEN NaN ELSE IF i = 20 THEN Num(150) ELSE Num(20)]] ]

(* self.results = {} of the constructors *)
NoResults == <<>>

-----------------------------------------------------------------------------
(* DatasetProfiler *)

(* A statistic: None, NaN, the rational num / den ("value"), or the square *)
(* root of num / den ("sqrt"); NoKey is a key the record does not have.    *)
StatNone == [tag |-> "None", num |-> 0, den |-> 1]
StatNaN == [tag |-> "NaN", num |-> 0, den |-> 1]
StatValue(a, b) == [tag |-> "value", num |-> a, den |-> b]
StatSqrt(a, b) == [tag |-> "sqrt", num |-> a, den |-> b]
NoKey == [tag |-> "no key", num |-> 0, den |-> 1]

(* The numbers of a series, missing values dropped *)
Values(series) == [k \in 1..Len(DropNa(series)) |-> DropNa(series)[k].n]

RECURSIVE Insert(_, _)
Insert(x, sorted) ==
    IF sorted = <<>> THEN <<x>>
    ELSE IF x <= Head(sorted) THEN <<x>> \o sorted
    ELSE <<Head(sorted)>> \o Insert(x, Tail(sorted))

RECURSIVE Sort(_)
Sort(q) == IF q = <<>> THEN <<>> ELSE Insert(Head(q), Sort(Tail(q)))

SumSquares(q) == SeqSum([k \in DOMAIN q |-> q[k] * q[k]])

(* Series.mean(), .min(), .max(), .median(), .std(): missing values are    *)
(* skipped, and the result is NaN when nothing is left (std: fewer than 2) *)
Mean(series) ==
    LET v == Values(series)
    IN  IF v = <<>> THEN StatNaN ELSE StatValue(SeqSum(v), Len(v))

Minimum(series) ==
    LET v == Sort(Values(series))
    IN  IF v = <<>> THEN StatNaN ELSE StatValue(v[1], 1)

Maximum(series) ==
    LET v == Sort(Values(series))
    IN  IF v = <<>> THEN StatNaN ELSE StatValue(v[Len(v)], 1)

Median(series) ==
    LET v == Sort(Values(series))
        n == Len(v)
    IN  IF n = 0 THEN StatNaN
        ELSE IF n % 2 = 1 THEN StatValue(v[(n + 1) \div 2], 1)
        ELSE StatValue(v[n \div 2] + v[n \div 2 + 1], 2)

Std(series) ==
    LET v == Values(series)
        n == Len(v)
    IN  IF n < 2 THEN StatNaN
        ELSE StatSqrt(n * SumSquares(v) - SeqSum(v) * SeqSum(v), n * (n - 1))

(* Series.empty: the series has no rows (missing values are not removed) *)
Empty(series) == Len(series) = 0

(* Lines 46-50: `float(stat) if not col_data.empty else None` *)
NumericStat(series, stat) == IF ~Empty(series) THEN stat ELSE StatNone

(* df.select_dtypes(include=...).columns.tolist() *)
SelectDtypes(d, dtypes) == SelectSeq(d.columns, LAMBDA c : d.dtypes[c] \in dtypes)

(* Line 15: the columns with at most one distinct non-missing value *)
ConstantColumns(d) == SelectSeq(d.columns, LAMBDA c : nunique(Column(d, c)) <= 1)

(* df.duplicated().sum(): the rows equal to an earlier row *)
DuplicateRows(d) ==
    Cardinality({i \in 1..len(d) : \E j \in 1..(i - 1) : d.rows[j] = d.rows[i]})

(* Lines 34-53: the statistics of one column *)
ColumnStats(d, col) ==
    LET col_data == Column(d, col)
        numeric == col \in Range(SelectDtypes(d, NumericDtypes))
        Numeric(stat) == IF numeric THEN NumericStat(col_data, stat) ELSE NoKey
    IN  [ dtype |-> d.dtypes[col],
          missing_count |-> IsnaSum(col_data),
          missing_percentage |->
              IF len(d) = 0 THEN StatNaN ELSE StatValue(IsnaSum(col_data) * 100, len(d)),
          unique_count |-> nunique(col_data),
          is_constant |-> col \in Range(ConstantColumns(d)),
          mean |-> Numeric(Mean(col_data)),
          std |-> Numeric(Std(col_data)),
          min |-> Numeric(Minimum(col_data)),
          max |-> Numeric(Maximum(col_data)),
          median |-> Numeric(Median(col_data)) ]

(* Lines 9-55; memory_usage, a byte count of the platform, is left out *)
Profile(d) ==
    [ metadata |->
        [ total_rows |-> len(d),
          total_columns |-> Len(d.columns),
          duplicate_rows |-> DuplicateRows(d),
          constant_columns |-> ConstantColumns(d) ],
      data_types |->
        [ numeric |-> SelectDtypes(d, NumericDtypes),
          categorical |-> SelectDtypes(d, {"object", "category"}),
          datetime |-> SelectDtypes(d, {"datetime64"}),
          boolean |-> SelectDtypes(d, {"bool"}) ],
      columns |-> [c \in Columns(d) |-> ColumnStats(d, c)] ]

(* DatasetProfiler.__init__ *)
NewProfiler ==
    /\ outcome["profiler"] = "unbuilt"
    /\ profile' = NoResults
    /\ outcome' = [outcome EXCEPT !["profiler"] = "idle"]
    /\ UNCHANGED <<df, missingState, outlierState, validatorState, cleanerState>>

(* DatasetProfiler.generate_profile *)
GenerateProfile ==
    /\ outcome["profiler"] = "idle"
    /\ profile' = Profile(df)
    /\ outcome' = [outcome EXCEPT !["profiler"] = "returned"]
    /\ UNCHANGED <<df, missingState, outlierState, validatorState, cleanerState>>

-----------------------------------------------------------------------------
(* MissingValueAnalyzer *)

(* The thresholds the analyzer is constructed with *)
ThresholdValues == {Rat(0, 1), Rat(5, 100), Rat(30, 100), Rat(1, 2)}

Severity_Inclusive(missing_pct, warning, critical) ==
    IF RatLe(critical, missing_pct) THEN "error"
    ELSE IF RatLe(warning, missing_pct) THEN "warning"
    ELSE IF RatLt(Rat(0, 1), missing_pct) THEN "info"
    ELSE "none"

Severity_WarningFirst(missing_pct, warning, critical) ==
    IF RatLt(warning, missing_pct) THEN "warning"
    ELSE IF RatLt(critical, missing_pct) THEN "error"
    ELSE IF RatLt(Rat(0, 1), missing_pct) THEN "info"
    ELSE "none"

(* Lines 18-24 *)
Severity(missing_pct, warning, critical) ==
    IF RatLt(critical, missing_pct) THEN "error"
    ELSE IF RatLt(warning, missing_pct) THEN "warning"
    ELSE IF RatLt(Rat(0, 1), missing_pct) THEN "info"
    ELSE "none"

(* Line 16: missing_count / total_rows if total_rows > 0 else 0 *)
MissingPct(missing_count, total_rows) ==
    IF total_rows > 0 THEN Rat(missing_count, total_rows) ELSE Rat(0, 1)

(* Lines 26-32 *)
Strategies(dtype, severity) ==
    IF severity = "none" THEN <<>>
    ELSE (IF dtype \in NumericDtypes
          THEN <<"Impute with mean/median", "Fill with constant (0)">>
          ELSE <<"Impute with mode", "Fill with 'Unknown'">>)
         \o <<"Drop rows if target variable">>

(* Lines 14-41: the finding of one column *)
ColumnAnalysis(d, col, warning, critical) ==
    LET missing_count == IsnaSum(Column(d, col))
        missing_pct == MissingPct(missing_count, len(d))
        severity == Severity(missing_pct, warning, critical)
    IN  [ column |-> col,
          missing_count |-> missing_count,
          missing_percentage |-> Rat(missing_pct.num * 100, missing_pct.den),
          severity |-> severity,
          dtype |-> d.dtypes[col],
          strategies |-> Strategies(d.dtypes[col], severity) ]

(* df.dropna().shape[0]: the rows without a missing cell *)
CompleteRows(d) ==
    Cardinality({i \in 1..len(d) : \A c \in Columns(d) : ~isna(d.rows[i][c])})

(* df.size *)
Size(d) == len(d) * Len(d.columns)

MissingResults(d, warning, critical) ==
    LET col_analysis ==
            [k \in 1..Len(d.columns) |-> ColumnAnalysis(d, d.columns[k], warning, critical)]
    IN  [ overall_stats |->
            [ missing_percentage |->
                IF Size(d) > 0 THEN Rat(TotalMissing(d) * 100, Size(d)) ELSE Rat(0, 1),
              complete_rows_percentage |->
                IF len(d) > 0 THEN Rat(CompleteRows(d) * 100, len(d)) ELSE Rat(0, 1) ],
          column_analysis |-> col_analysis,
          recommendations |->
                SelectSeq(col_analysis, LAMBDA c : c.missing_percentage.num > 0) ]

(* MissingValueAnalyzer.__init__ *)
NewMissingAnalyzer(warning, critical) ==
    /\ outcome["missing_analyzer"] = "unbuilt"
    /\ warning_threshold' = warning
    /\ critical_threshold' = critical
    /\ missing_analysis' = NoResults
    /\ outcome' = [outcome EXCEPT !["missing_analyzer"] = "idle"]
    /\ UNCHANGED <<df, profilerState, outlierState, validatorState, cleanerState>>

Analyze_DropsInPlace ==
    /\ outcome["missing_analyzer"] = "idle"
    /\ missing_analysis' = MissingResults(df, warning_threshold, critical_threshold)
    /\ df' = [df EXCEPT !.rows = SelectSeq(df.rows,
                                           LAMBDA row : \A c \in Columns(df) : ~isna(row[c]))]
    /\ outcome' = [outcome EXCEPT !["missing_analyzer"] = "returned"]
    /\ UNCHANGED <<warning_threshold, critical_threshold,
                   profilerState, outlierState, validatorState, cleanerState>>

(* MissingValueAnalyzer.analyze *)
Analyze ==
    /\ outcome["missing_analyzer"] = "idle"
    /\ missing_analysis' = MissingResults(df, warning_threshold, critical_threshold)
    /\ outcome' = [outcome EXCEPT !["missing_analyzer"] = "returned"]
    /\ UNCHANGED <<df, warning_threshold, critical_threshold,
                   profilerState, outlierState, validatorState, cleanerState>>

-----------------------------------------------------------------------------
(* OutlierDetector *)

(* The parameters the detector is constructed with:                        *)
(* <<iqr_multiplier, zscore_threshold, isolation_contamination>>           *)
DetectorParameters ==
    { <<Rat(15, 10), Rat(3, 1), Rat(1, 10)>>,    \* the defaults
      <<Rat(15, 10), Rat(1, 1), Rat(1, 10)>>,    \* tests/test_auditor.py
      <<Rat(0, 1), Rat(3, 1), Rat(1, 10)>>,
      <<Rat(3, 1), Rat(3, 1), Rat(1, 10)>>,
      <<Rat(15, 10), Rat(3, 1), Rat(6, 10)>> }   \* a contamination sklearn rejects

(* Series.quantile(a / 4), linear interpolation between the two nearest    *)
(* order statistics; the result times 4.                                   *)
Quantile4(series, a) ==
    LET v == Sort(Values(series))
        pos == a * (Len(v) - 1)
        lo == pos \div 4
        r == pos % 4
    IN  IF r = 0 THEN 4 * v[lo + 1]
        ELSE 4 * v[lo + 1] + r * (v[lo + 2] - v[lo + 1])

IqrOutliers_FencesInside(series, k) ==
    LET v == Values(series)
        q1 == Quantile4(series, 1)
        q3 == Quantile4(series, 3)
        iqr == q3 - q1
    IN  Cardinality({i \in DOMAIN v :
            \/ 4 * k.den * v[i] < k.den * q1 + k.num * iqr
            \/ 4 * k.den * v[i] > k.den * q3 - k.num * iqr})

(* Lines 36-39: the values below q1 - k * iqr or above q3 + k * iqr *)
IqrOutliers(series, k) ==
    LET v == Values(series)
        q1 == Quantile4(series, 1)
        q3 == Quantile4(series, 3)
        iqr == q3 - q1
    IN  Cardinality({i \in DOMAIN v :
            \/ 4 * k.den * v[i] < k.den * q1 - k.num * iqr
            \/ 4 * k.den * v[i] > k.den * q3 + k.num * iqr})

(* Lines 41-42: |x - mean| / std > threshold, std the population deviation *)
ZscoreOutliers(series, threshold) ==
    LET v == Values(series)
        n == Len(v)
        S == SeqSum(v)
    IN  Cardinality({i \in DOMAIN v :
            (n * v[i] - S) * (n * v[i] - S) * threshold.den * threshold.den
               > threshold.num * threshold.num * (n * SumSquares(v) - S * S)})

OutlierSeverity_Inclusive(iqr_outliers, total_rows) ==
    IF 20 * iqr_outliers >= total_rows THEN "high"
    ELSE IF iqr_outliers > 0 THEN "medium"
    ELSE "low"

(* Line 48: high above 0.05 * len(self.df), the rows of the whole dataset *)
OutlierSeverity(iqr_outliers, total_rows) ==
    IF 20 * iqr_outliers > total_rows THEN "high"
    ELSE IF iqr_outliers > 0 THEN "medium"
    ELSE "low"

NumericDfColumns_KeepAllMissing(d) == SelectDtypes(d, NumericDtypes)

(* Line 20: the columns of select_dtypes(number).dropna(axis=1, how='all') *)
NumericDfColumns(d) ==
    SelectSeq(SelectDtypes(d, NumericDtypes),
              LAMBDA c : \E i \in 1..len(d) : ~isna(d.rows[i][c]))

(* Line 22: numeric_df.empty: no column or no row *)
NumericDfEmpty(d) == Len(NumericDfColumns(d)) = 0 \/ len(d) = 0

HasVariance_AnyValue(series) == nunique(series) >= 1

(* Line 33: `if series.nunique() <= 1: continue` *)
HasVariance(series) == nunique(series) > 1

(* Lines 30-49 *)
PerColumn(d, k, threshold) ==
    LET analyzed == {c \in Range(NumericDfColumns(d)) : HasVariance(DropNa(Column(d, c)))}
    IN  [c \in analyzed |->
            LET series == DropNa(Column(d, c))
                iqr_outliers == IqrOutliers(series, k)
            IN  [ iqr_outliers |-> iqr_outliers,
                  zscore_outliers |-> ZscoreOutliers(series, threshold),
                  isolation_outliers |-> 0,
                  severity |-> OutlierSeverity(iqr_outliers, len(d)) ]]

(* Line 51: the columns of numeric_df with more than one distinct value *)
ValidNumericColumns(d) ==
    SelectSeq(NumericDfColumns(d), LAMBDA c : nunique(Column(d, c)) > 1)

(* IsolationForest(contamination=...) rejects a contamination outside      *)
(* (0, 0.5] with an exception.                                             *)
ContaminationRejected(contamination) ==
    contamination.num <= 0 \/ 2 * contamination.num > contamination.den

(* Lines 53-60: the try block is "not run" without a column to fit; the    *)
(* forest (not modelled) either is "fitted" and marks some of the rows -1, *)
(* or it has "raised": always on a rejected contamination, and possibly on *)
(* any other input (values or resources the library refuses).              *)
IsolationOutcomes(d, contamination) ==
    IF Len(ValidNumericColumns(d)) = 0
    THEN {[status |-> "not run", marked |-> 0]}
    ELSE {[status |-> "raised", marked |-> 0]}
         \cup (IF ContaminationRejected(contamination) THEN {}
               ELSE {[status |-> "fitted", marked |-> n] : n \in 0..len(d)})

(* Lines 53, 58-60: total_iso_outliers stays 0 unless the forest was fitted *)
TotalIsoOutliers(iso) == IF iso.status = "fitted" THEN iso.marked ELSE 0

NoNumericData == "No numeric data available for outlier detection"

OutlierResults(keys, error, per_column, total) ==
    [ keys |-> keys, error |-> error,
      summary |-> [per_column_summary |-> per_column, total_ml_outliers |-> total] ]

(* OutlierDetector.__init__ *)
NewOutlierDetector(params) ==
    /\ outcome["outlier_detector"] = "unbuilt"
    /\ iqr_multiplier' = params[1]
    /\ zscore_threshold' = params[2]
    /\ isolation_contamination' = params[3]
    /\ outlier_results' = OutlierResults({"summary"}, "", <<>>, 0)
    /\ isolation_status' = "not run"
    /\ outcome' = [outcome EXCEPT !["outlier_detector"] = "idle"]
    /\ UNCHANGED <<df, earlier_results, profilerState, missingState, validatorState, cleanerState>>

(* A caller that keeps the per-column findings of the detector and         *)
(* constructs a second one, with other parameters, over the same dataset   *)
NewOutlierDetectorAgain(params) ==
    /\ outcome["outlier_detector"] = "returned"
    /\ earlier_results = NoResults
    /\ earlier_results' =
          [ iqr_multiplier |-> iqr_multiplier,
            per_column_summary |-> outlier_results.summary.per_column_summary ]
    /\ iqr_multiplier' = params[1]
    /\ zscore_threshold' = params[2]
    /\ isolation_contamination' = params[3]
    /\ outlier_results' = OutlierResults({"summary"}, "", <<>>, 0)
    /\ isolation_status' = "not run"
    /\ outcome' = [outcome EXCEPT !["outlier_detector"] = "idle"]
    /\ UNCHANGED <<df, profilerState, missingState, validatorState, cleanerState>>

DetectAll_Propagates ==
    /\ outcome["outlier_detector"] = "idle"
    /\ IF NumericDfEmpty(df)
       THEN /\ outlier_results' = OutlierResults({"error", "summary"}, NoNumericData, <<>>, 0)
            /\ isolation_status' = "not run"
            /\ outcome' = [outcome EXCEPT !["outlier_detector"] = "returned"]
       ELSE \E iso \in IsolationOutcomes(df, isolation_contamination) :
               /\ isolation_status' = iso.status
               /\ IF iso.status = "raised"
                  THEN /\ outcome' = [outcome EXCEPT !["outlier_detector"] = "raised"]
                       /\ UNCHANGED outlier_results
                  ELSE /\ outcome' = [outcome EXCEPT !["outlier_detector"] = "returned"]
                       /\ outlier_results' =
                             OutlierResults({"summary"}, "",
                                            PerColumn(df, iqr_multiplier, zscore_threshold),
                                            TotalIsoOutliers(iso))
    /\ UNCHANGED <<df, iqr_multiplier, zscore_threshold, isolation_contamination,
                   earlier_results, profilerState, missingState, validatorState, cleanerState>>

(* OutlierDetector.detect_all *)
DetectAll ==
    /\ outcome["outlier_detector"] = "idle"
    /\ IF NumericDfEmpty(df)
       THEN /\ outlier_results' = OutlierResults({"error", "summary"}, NoNumericData, <<>>, 0)
            /\ isolation_status' = "not run"
       ELSE \E iso \in IsolationOutcomes(df, isolation_contamination) :
               /\ isolation_status' = iso.status
               /\ outlier_results' =
                     OutlierResults({"summary"}, "",
                                    PerColumn(df, iqr_multiplier, zscore_threshold),
                                    TotalIsoOutliers(iso))
    /\ outcome' = [outcome EXCEPT !["outlier_detector"] = "returned"]
    /\ UNCHANGED <<df, iqr_multiplier, zscore_threshold, isolation_contamination,
                   earlier_results, profilerState, missingState, validatorState, cleanerState>>

-----------------------------------------------------------------------------
(* DataValidator *)

(* The constraint sets handed to the validator.  A rule set is             *)
(* [keys, min, max, relationship]: keys are the rules present.             *)
Rules(keys, lo, hi, rel) == [keys |-> keys, min |-> lo, max |-> hi, relationship |-> rel]

RuleSets ==
    { Rules({"min"}, 20, 0, ""),
      Rules({"min"}, 100, 0, ""),
      Rules({"max"}, 0, 100, ""),
      Rules({"max"}, 0, 20, ""),
      Rules({"min", "max"}, 100, 20, ""),
      Rules({"relationship"}, 0, 0, "salary >= age"),
      Rules({"relationship"}, 0, 0, "salary >="),
      Rules({"min", "max", "relationship"}, 20, 100, "age >= salary") }

(* Rule sets for a column that is absent or holds text *)
OtherRuleSets ==
    { Rules({"min"}, 100, 0, ""),
      Rules({"max"}, 0, 20, ""),
      Rules({"relationship"}, 0, 0, "salary >= age"),
      Rules({"relationship"}, 0, 0, "salary >=") }

Entry(col, rules) == [column |-> col, rules |-> rules]

ConstraintSets ==
    {<<>>}
    \cup { <<Entry(c, r)>> : c \in {"age", "salary"}, r \in RuleSets }
    \cup { <<Entry(c, r)>> : c \in {"department", "ghost"}, r \in OtherRuleSets }
    \cup { cs \in { <<Entry(c1, r1), Entry(c2, Rules({"min", "max"}, 100, 20, ""))>> :
                       c1 \in {"ghost", "age", "salary"}, c2 \in {"age", "salary"},
                       r1 \in { Rules({"max"}, 0, 100, ""),
                                Rules({"relationship"}, 0, 0, "salary >= age") } } :
             IsDict(cs) }
    \cup { << Entry("ghost", Rules({"max"}, 0, 100, "")),
              Entry("age", Rules({"relationship"}, 0, 0, "salary >=")),
              Entry("salary", Rules({"min", "max"}, 100, 20, "")) >> }

(* The datasets the validator is run on: a relationship rule reads two     *)
(* numeric columns, a range rule on a text column raises.                  *)
ValidatorSchemas ==
    { sc \in Schemas : \A k \in 1..Len(sc) : sc[k][2] = "numeric" \/ Len(sc) = 1 }

IsValidatorDataset(d) == IsGeneratedDataset(d, ValidatorSchemas) \/ d = base_test_data

(* The relationship expressions, parsed: ok is FALSE for an expression     *)
(* that is not well formed.                                                *)
ParseRelationship(expr) ==
    CASE expr = "salary >= age" -> [ok |-> TRUE, lhs |-> "salary", rhs |-> "age"]
      [] expr = "age >= salary" -> [ok |-> TRUE, lhs |-> "age", rhs |-> "salary"]
      [] OTHER -> [ok |-> FALSE, lhs |-> "", rhs |-> ""]

(* df[col] < bound on an object column holding text raises TypeError *)
CompareRaises(d, col) ==
    \E i \in 1..len(d) : d.rows[i][col].t = "str"

CountAbove_Inclusive(d, col, bound) ==
    Cardinality({i \in 1..len(d) : ~isna(d.rows[i][col]) /\ d.rows[i][col].n >= bound})

(* len(df[df[col] < bound]): a comparison with a missing value is False *)
CountBelow(d, col, bound) ==
    Cardinality({i \in 1..len(d) : ~isna(d.rows[i][col]) /\ d.rows[i][col].n < bound})

CountAbove(d, col, bound) ==
    Cardinality({i \in 1..len(d) : ~isna(d.rows[i][col]) /\ d.rows[i][col].n > bound})

(* df.query("not (lhs >= rhs)"): raises on an expression that is not well  *)
(* formed or names an undefined column; a comparison with a missing value  *)
(* is False, so its negation selects the row.                              *)
QueryRaises(d, expr) ==
    LET e == ParseRelationship(expr)
    IN  ~e.ok \/ e.lhs \notin Columns(d) \/ e.rhs \notin Columns(d)
        \/ CompareRaises(d, e.lhs) \/ CompareRaises(d, e.rhs)

QueryCount(d, expr) ==
    LET e == ParseRelationship(expr)
    IN  Cardinality({i \in 1..len(d) :
            ~(/\ ~isna(d.rows[i][e.lhs]) /\ ~isna(d.rows[i][e.rhs])
              /\ d.rows[i][e.lhs].n >= d.rows[i][e.rhs].n)})

Violation(col, kind, count, total, expected, rule, severity) ==
    [ column |-> col, constraint |-> kind, violations |-> count,
      percentage |-> Rat(count * 100, total),
      expected |-> expected, rule |-> rule, severity |-> severity ]

(* Lines 18-26: the min rule of one column *)
MinViolations(d, col, rules) ==
    IF "min" \in rules.keys /\ CountBelow(d, col, rules.min) > 0
    THEN << Violation(col, "min_value", CountBelow(d, col, rules.min), len(d),
                      ">= " \o ToString(rules.min), "", "error") >>
    ELSE <<>>

(* Lines 28-36: the max rule of one column *)
MaxViolations(d, col, rules) ==
    IF "max" \in rules.keys /\ CountAbove(d, col, rules.max) > 0
    THEN << Violation(col, "max_value", CountAbove(d, col, rules.max), len(d),
                      "<= " \o ToString(rules.max), "", "error") >>
    ELSE <<>>

(* Lines 38-49: the relationship rule; the bare except swallows any error *)
RelationshipViolations(d, col, rules) ==
    IF /\ "relationship" \in rules.keys
       /\ ~QueryRaises(d, rules.relationship)
       /\ QueryCount(d, rules.relationship) > 0
    THEN << Violation(col, "business_rule", QueryCount(d, rules.relationship), len(d),
                      "", rules.relationship, "warning") >>
    ELSE <<>>

ColumnSkipped_Never(d, col) == FALSE

(* Line 15: a constraint on a column the dataset does not have is skipped *)
ColumnSkipped(d, col) == col \notin Columns(d)

(* Lines 14-49 for one entry of the constraint set: the violation records  *)
(* it appends, and whether it raises.                                      *)
EntryRaises(d, entry) ==
    /\ ~ColumnSkipped(d, entry.column)
    /\ ({"min", "max"} \cap entry.rules.keys) # {}
    /\ \/ entry.column \notin Columns(d)      \* self.df[col]: KeyError
       \/ /\ entry.column \in Columns(d)
          /\ CompareRaises(d, entry.column)  \* self.df[col] < bound: TypeError

EntryViolations(d, entry) ==
    IF ColumnSkipped(d, entry.column) THEN <<>>
    ELSE MinViolations(d, entry.column, entry.rules)
         \o MaxViolations(d, entry.column, entry.rules)
         \o RelationshipViolations(d, entry.column, entry.rules)

RECURSIVE AllViolations(_, _)
AllViolations(d, cs) ==
    IF cs = <<>> THEN <<>>
    ELSE EntryViolations(d, Head(cs)) \o AllViolations(d, Tail(cs))

ValidatorRaises(d, cs) == \E k \in DOMAIN cs : EntryRaises(d, cs[k])

(* total_violations_count *)
TotalViolationsCount(violations) ==
    SeqSum([k \in DOMAIN violations |-> violations[k].violations])

(* Line 51: len(df) * len(df.columns) or 1 *)
ScoreDivisor(d) ==
    IF len(d) * Len(d.columns) = 0 THEN 1 ELSE len(d) * Len(d.columns)

QualityScore_ClampLast(d, total) ==
    LET D == ScoreDivisor(d)
    IN  Rat(Max2(0, 100 * D - 1000 * total - (IF TotalMissing(d) > 0 THEN 5 * D ELSE 0)), D)

(* Lines 51-52: max(0, 100 - total / divisor * 1000), then 5 off when any  *)
(* cell is missing.                                                        *)
QualityScore(d, total) ==
    LET D == ScoreDivisor(d)
        clamped == Max2(0, 100 * D - 1000 * total)
    IN  Rat(IF TotalMissing(d) > 0 THEN clamped - 5 * D ELSE clamped, D)

ValidationResults(d, cs) ==
    LET violations == AllViolations(d, cs)
        score == QualityScore(d, TotalViolationsCount(violations))
    IN  [ summary |->
            [ data_quality_score |-> score,
              validation_passed |-> RatLe(Rat(80, 1), score),
              total_issues |-> Len(violations),
              severity_breakdown |->
                [ error |-> Len(SelectSeq(violations, LAMBDA v : v.severity = "error")),
                  warning |-> Len(SelectSeq(violations, LAMBDA v : v.severity = "warning")) ] ],
          constraint_violations |-> violations,
          categorical_consistency |-> <<>> ]

(* DataValidator.__init__ *)
NewValidator(cs) ==
    /\ outcome["validator"] = "unbuilt"
    /\ constraints' = cs
    /\ validation_results' = NoResults
    /\ outcome' = [outcome EXCEPT !["validator"] = "idle"]
    /\ UNCHANGED <<df, profilerState, missingState, outlierState, cleanerState>>

(* DataValidator.validate_all *)
ValidateAll ==
    /\ outcome["validator"] = "idle"
    /\ IF ValidatorRaises(df, constraints)
       THEN /\ outcome' = [outcome EXCEPT !["validator"] = "raised"]
            /\ UNCHANGED validation_results
       ELSE /\ outcome' = [outcome EXCEPT !["validator"] = "returned"]
            /\ validation_results' = ValidationResults(df, constraints)
    /\ UNCHANGED <<df, constraints, profilerState, missingState, outlierState, cleanerState>>

-----------------------------------------------------------------------------
(* DataCleaner *)

(* The working copy keeps a number as n / Scale.  One operation halves a   *)
(* value at most three times (a median is a half, a quartile a quarter and *)
(* 1.5 * iqr a half of that), so what MaxOps + 1 operations compute are    *)
(* whole multiples of 1 / Scale; so are the results of run_audit, whose    *)
(* stages halve a value five times at most (a token such as 30.5, a        *)
(* median, the fences).                                                    *)
Scale == 8 ^ (MaxOps + 1)

(* The same cell in another unit *)
Rescaled(c, from, to) == IF c.t = "num" THEN [c EXCEPT !.n = (c.n * to) \div from] ELSE c

(* DataFrame.copy(): a frame of its own with the columns, dtypes, rows and *)
(* values of d                                                             *)
copy(d) ==
    [ unit    |-> Scale,
      columns |-> d.columns,
      dtypes  |-> d.dtypes,
      rows    |-> [i \in 1..len(d) |->
                     [c \in Columns(d) |-> Rescaled(d.rows[i][c], d.unit, Scale)]] ]

(* Two frames with the same columns, rows and cell values *)
SameFrame(a, b) ==
    /\ a.columns = b.columns
    /\ a.dtypes = b.dtypes
    /\ len(a) = len(b)
    /\ \A i \in 1..len(a) : \A c \in Columns(a) :
          /\ a.rows[i][c].t = b.rows[i][c].t
          /\ a.rows[i][c].s = b.rows[i][c].s
          /\ a.rows[i][c].n * b.unit = b.rows[i][c].n * a.unit

(* What an operation leaves: the frame self.df names, the entries appended *)
(* to history, whether it raised, and whether self.df was bound to a new   *)
(* frame (a selection of rows) instead of being changed in place.          *)
Outcome(frame, log, raised, rebound) ==
    [df |-> frame, log |-> log, raised |-> raised, rebound |-> rebound]

(* self.df[col] = cells *)
SetColumn(frame, col, cells, dtype) ==
    [ unit    |-> frame.unit,
      columns |-> frame.columns,
      dtypes  |-> [frame.dtypes EXCEPT ![col] = dtype],
      rows    |-> [i \in 1..len(frame) |-> [frame.rows[i] EXCEPT ![col] = cells[i]]] ]

(* The rows of the frame that pass the test, in their order *)
KeepRows(frame, Keep(_)) == [frame EXCEPT !.rows = SelectSeq(frame.rows, Keep)]

(* The texts that spell a number: <<text, twice the number>> *)
NumericTokens == { <<"25", 50>>, <<"30", 60>>, <<"30.5", 61>> }

CoerceCell_KeepText(c, unit) ==
    CASE c.t = "str" /\ c.s = "number" -> [t |-> "num", n |-> c.n, s |-> ""]
      [] c.t = "str" /\ (\E p \in NumericTokens : p[1] = c.s) ->
            Num(((CHOOSE p \in NumericTokens : p[1] = c.s)[2] * unit) \div 2)
      [] c.t = "bool" -> Num(c.n * unit)
      [] OTHER -> c

(* Line 16: pd.to_numeric(..., errors='coerce') of one cell of an object   *)
(* column: the number a text spells, missing for any other text            *)
CoerceCell(c, unit) ==
    CASE c.t = "str" /\ c.s = "number" -> [t |-> "num", n |-> c.n, s |-> ""]
      [] c.t = "str" /\ (\E p \in NumericTokens : p[1] = c.s) ->
            Num(((CHOOSE p \in NumericTokens : p[1] = c.s)[2] * unit) \div 2)
      [] c.t = "str" -> NaN
      [] c.t = "bool" -> Num(c.n * unit)
      [] OTHER -> c

(* Line 16: a column that is numeric (or boolean) already is returned as   *)
(* it is; an object column becomes int64 when every cell is a whole        *)
(* number, float64 otherwise.                                              *)
ToNumeric(frame, col) ==
    IF frame.dtypes[col] # "object" THEN frame
    ELSE LET cells == [i \in 1..len(frame) |-> CoerceCell(frame.rows[i][col], frame.unit)]
             whole == \A i \in DOMAIN cells :
                          cells[i].t = "num" /\ cells[i].n % frame.unit = 0
         IN  SetColumn(frame, col, cells, IF whole THEN "int64" ELSE "float64")

(* Lines 13-18; st is [df, log] *)
RECURSIVE EnforceNumeric(_, _)
EnforceNumeric(st, cols) ==
    IF cols = <<>> THEN st
    ELSE LET col == Head(cols)
             coerced == ToNumeric(st.df, col)
         IN  IF col \notin Columns(st.df) THEN EnforceNumeric(st, Tail(cols))
             ELSE EnforceNumeric(
                     [ df  |-> coerced,
                       log |-> IF coerced.dtypes[col] # st.df.dtypes[col]
                               THEN Append(st.log, <<"Enforced numeric type for", col>>)
                               ELSE st.log ],
                     Tail(cols))

(* Line 22: astype(str).replace('nan', np.nan) of one cell; the text of a  *)
(* number is the text cell "number" that keeps the number.                 *)
TextCell(c) ==
    CASE c.t = "nan" -> NaN
      [] c.t = "num" -> [t |-> "str", n |-> c.n, s |-> "number"]
      [] c.t = "bool" -> Str(IF c.n = 1 THEN "True" ELSE "False")
      [] OTHER -> IF c.s = "nan" THEN NaN ELSE c

(* Lines 20-23 *)
RECURSIVE EnforceCategorical(_, _)
EnforceCategorical(st, cols) ==
    IF cols = <<>> THEN st
    ELSE LET col == Head(cols)
             cells == [i \in 1..len(st.df) |-> TextCell(st.df.rows[i][col])]
         IN  IF col \notin Columns(st.df) THEN EnforceCategorical(st, Tail(cols))
             ELSE EnforceCategorical(
                     [ df  |-> SetColumn(st.df, col, cells, "object"),
                       log |-> Append(st.log, <<"Enforced categorical type for", col>>) ],
                     Tail(cols))

(* The expected_types of the configuration; a missing key is an empty list *)
ExpectedTypes(numeric, categorical) ==
    [numeric_columns |-> numeric, categorical_columns |-> categorical]

(* Lines 9-25 *)
EnforceTypes(frame, expected_types) ==
    LET st == EnforceCategorical(
                  EnforceNumeric([df |-> frame, log |-> <<>>],
                                 expected_types.numeric_columns),
                  expected_types.categorical_columns)
    IN  Outcome(st.df, st.log, FALSE, FALSE)

(* df.drop(columns=cols) *)
DropColumns(frame, cols) ==
    LET left == Columns(frame) \ Range(cols)
    IN  [ unit    |-> frame.unit,
          columns |-> SelectSeq(frame.columns, LAMBDA c : c \in left),
          dtypes  |-> [c \in left |-> frame.dtypes[c]],
          rows    |-> [i \in 1..len(frame) |-> [c \in left |-> frame.rows[i][c]]] ]

(* Lines 27-32: drop raises KeyError, before it changes anything, when a   *)
(* column of the list is not in the frame.                                 *)
DropConstantColumns(frame, constant_cols) ==
    IF constant_cols = <<>> THEN Outcome(frame, <<>>, FALSE, FALSE)
    ELSE IF ~(Range(constant_cols) \subseteq Columns(frame))
    THEN Outcome(frame, <<>>, TRUE, FALSE)
    ELSE Outcome(DropColumns(frame, constant_cols),
                 << <<"Dropped constant columns", constant_cols>> >>, FALSE, FALSE)

(* DataFrame.empty: no column or no row *)
FrameEmpty(frame) == Len(frame.columns) = 0 \/ len(frame) = 0

(* The rows that equal no earlier row, in their order *)
FirstOccurrences(rows) ==
    LET firsts == SelectSeq([i \in 1..Len(rows) |-> i],
                            LAMBDA i : ~(\E j \in 1..(i - 1) : rows[j] = rows[i]))
    IN  [k \in 1..Len(firsts) |-> rows[firsts[k]]]

DropDuplicates_AlwaysLogs(frame) ==
    LET kept == IF FrameEmpty(frame) THEN frame.rows ELSE FirstOccurrences(frame.rows)
        dropped == len(frame) - Len(kept)
    IN  Outcome([frame EXCEPT !.rows = kept],
                << <<"Dropped duplicate rows", dropped>> >>, FALSE, FALSE)

(* Lines 34-40: DataFrame.drop_duplicates(inplace=True) keeps the first of *)
(* equal rows (missing cells equal each other) and leaves an empty frame   *)
(* as it is.                                                               *)
DropDuplicates(frame) ==
    LET kept == IF FrameEmpty(frame) THEN frame.rows ELSE FirstOccurrences(frame.rows)
        dropped == len(frame) - Len(kept)
    IN  Outcome([frame EXCEPT !.rows = kept],
                IF dropped > 0 THEN << <<"Dropped duplicate rows", dropped>> >> ELSE <<>>,
                FALSE, FALSE)

(* A finding of the missing-value analysis, as the cleaner reads it *)
Finding(col, severity) == [column |-> col, severity |-> severity]

(* Series.median() as a cell: missing when the column has no value *)
MedianCell(series) ==
    LET v == Sort(Values(series))
        n == Len(v)
    IN  IF n = 0 THEN NaN
        ELSE IF n % 2 = 1 THEN Num(v[(n + 1) \div 2])
        ELSE Num((v[n \div 2] + v[n \div 2 + 1]) \div 2)

(* The named texts of the model in their order as Python strings *)
TextOrder ==
    << "25", "30", "30.5", "False", "HR", "IT", "Sales", "True", "Unknown",
       "not_a_number" >>

(* The decimal digits of a natural number, as character ranks: a digit d   *)
(* is d + 2, above the point (1) and the minus sign (0)                    *)
RECURSIVE Digits(_)
Digits(n) == IF n < 10 THEN <<n + 2>> ELSE Append(Digits(n \div 10), (n % 10) + 2)

(* The digits after the point of r / unit, r < unit *)
RECURSIVE FractionDigits(_, _)
FractionDigits(r, unit) ==
    IF r = 0 THEN <<>>
    ELSE <<((10 * r) \div unit) + 2>> \o FractionDigits((10 * r) % unit, unit)

(* str(n / unit) as character ranks, up to the point when it is whole: two *)
(* numerals of one column compare as their texts do                        *)
Numeral(n, unit) ==
    LET m == IF n < 0 THEN 0 - n ELSE n
    IN  (IF n < 0 THEN <<0>> ELSE <<>>) \o Digits(m \div unit) \o <<1>>
            \o FractionDigits(m % unit, unit)

(* The key a cell of an object column sorts by: the numeral of a number    *)
(* cast to text, the place of a named text (they do not share a column)    *)
SortKey(c, unit) ==
    IF c.t = "str" /\ c.s = "number" THEN Numeral(c.n, unit)
    ELSE IF c.t = "str" THEN <<100 + (CHOOSE k \in 1..Len(TextOrder) : TextOrder[k] = c.s)>>
    ELSE <<c.n>>

(* Lexicographic order of two keys *)
RECURSIVE KeyLeq(_, _)
KeyLeq(x, y) ==
    IF x = <<>> THEN TRUE
    ELSE IF y = <<>> THEN FALSE
    ELSE IF Head(x) # Head(y) THEN Head(x) < Head(y)
    ELSE KeyLeq(Tail(x), Tail(y))

(* Series.mode(): the most frequent values, missing ones left out *)
Modes(series) ==
    LET present == Range(DropNa(series))
        Count(v) == Cardinality({i \in DOMAIN series : series[i] = v})
    IN  {v \in present : \A w \in present : Count(w) <= Count(v)}

(* Line 57: mode()[0], the first of the sorted modes, or "Unknown" *)
ModeCell(series, unit) ==
    IF Modes(series) = {} THEN Str("Unknown")
    ELSE CHOOSE v \in Modes(series) :
             \A w \in Modes(series) : KeyLeq(SortKey(v, unit), SortKey(w, unit))

(* Series.fillna(fill): a missing fill leaves the cell missing *)
FillNa(frame, col, fill) ==
    SetColumn(frame, col,
              [i \in 1..len(frame) |->
                  IF isna(frame.rows[i][col]) THEN fill ELSE frame.rows[i][col]],
              frame.dtypes[col])

(* Lines 43-59; st is [df, log] *)
RECURSIVE HandleMissing(_, _)
HandleMissing(st, column_analysis) ==
    IF column_analysis = <<>> THEN st
    ELSE LET col_info == Head(column_analysis)
             col == col_info.column
             series == Column(st.df, col)
             next ==
                 IF col_info.severity = "error"
                 THEN [ df  |-> KeepRows(st.df, LAMBDA row : ~isna(row[col])),
                        log |-> Append(st.log, <<"Dropped rows with missing", col>>) ]
                 ELSE IF st.df.dtypes[col] \in NumericDtypes
                 THEN [ df  |-> FillNa(st.df, col, MedianCell(series)),
                        log |-> Append(st.log, <<"Imputed missing with median", col,
                                                 MedianCell(series)>>) ]
                 ELSE [ df  |-> FillNa(st.df, col, ModeCell(series, st.df.unit)),
                        log |-> Append(st.log, <<"Imputed missing with mode", col,
                                                 ModeCell(series, st.df.unit)>>) ]
         IN  IF col \notin Columns(st.df) THEN HandleMissing(st, Tail(column_analysis))
             ELSE HandleMissing(next, Tail(column_analysis))

(* Lines 42-60 *)
HandleMissingValues(frame, column_analysis) ==
    LET st == HandleMissing([df |-> frame, log |-> <<>>], column_analysis)
    IN  Outcome(st.df, st.log, FALSE, FALSE)

(* An entry of the outlier summary, as the cleaner reads it *)
SummaryEntry(col, iqr_outliers) == [column |-> col, iqr_outliers |-> iqr_outliers]

Fences_ThreeIqr(series) ==
    IF Values(series) = <<>> THEN [defined |-> FALSE, lower |-> 0, upper |-> 0]
    ELSE LET q1 == Quantile4(series, 1)
             q3 == Quantile4(series, 3)
         IN  [defined |-> TRUE, lower |-> 2 * (4 * q1 - 3 * q3),
                                upper |-> 2 * (4 * q3 - 3 * q1)]

(* Lines 67-71: the fences q1 - 1.5 * iqr and q3 + 1.5 * iqr, times 8; not *)
(* defined (NaN) for a column without a value                              *)
Fences(series) ==
    IF Values(series) = <<>> THEN [defined |-> FALSE, lower |-> 0, upper |-> 0]
    ELSE LET q1 == Quantile4(series, 1)
             q3 == Quantile4(series, 3)
         IN  [defined |-> TRUE, lower |-> 5 * q1 - 3 * q3, upper |-> 5 * q3 - 3 * q1]

ClipCell_UpperOnly(c, fences) ==
    IF c.t # "num" \/ ~fences.defined THEN c
    ELSE IF 8 * c.n > fences.upper THEN Num(fences.upper \div 8)
    ELSE c

(* Line 74: Series.clip; a missing value stays, and so does every value    *)
(* when the fences are not defined                                         *)
ClipCell(c, fences) ==
    IF c.t # "num" \/ ~fences.defined THEN c
    ELSE IF 8 * c.n < fences.lower THEN Num(fences.lower \div 8)
    ELSE IF 8 * c.n > fences.upper THEN Num(fences.upper \div 8)
    ELSE c

(* Line 77: (x >= lower) & (x <= upper), False for a missing value or fence *)
WithinFences(c, fences) ==
    /\ c.t = "num"
    /\ fences.defined
    /\ 8 * c.n >= fences.lower
    /\ 8 * c.n <= fences.upper

(* Series.quantile raises TypeError on a column that holds text or booleans *)
QuantileRaises(frame, col) ==
    \E i \in 1..len(frame) : frame.rows[i][col].t \in {"str", "bool"}

(* Lines 63-78; st is an Outcome.  The loop ends at the column that raises *)
(* and keeps what it did to the columns before.                            *)
RECURSIVE HandleOutliersLoop(_, _, _)
HandleOutliersLoop(st, outlier_summary, method) ==
    IF outlier_summary = <<>> \/ st.raised THEN st
    ELSE LET col == Head(outlier_summary).column
             fences == Fences(Column(st.df, col))
             clipped == [i \in 1..len(st.df) |-> ClipCell(st.df.rows[i][col], fences)]
             next ==
                 IF QuantileRaises(st.df, col) THEN [st EXCEPT !.raised = TRUE]
                 ELSE IF method = "clip"
                 THEN Outcome(SetColumn(st.df, col, clipped,
                                        IF clipped = Column(st.df, col)
                                        THEN st.df.dtypes[col] ELSE "float64"),
                              Append(st.log, <<"Clipped outliers in", col>>),
                              FALSE, st.rebound)
                 ELSE IF method = "remove"
                 THEN Outcome(KeepRows(st.df, LAMBDA row : WithinFences(row[col], fences)),
                              Append(st.log, <<"Removed rows with outliers in", col>>),
                              FALSE, TRUE)
                 ELSE st
         IN  IF col \notin Columns(st.df) \/ Head(outlier_summary).iqr_outliers = 0
             THEN HandleOutliersLoop(st, Tail(outlier_summary), method)
             ELSE HandleOutliersLoop(next, Tail(outlier_summary), method)

(* Lines 62-80 *)
HandleOutliers(frame, outlier_summary, method) ==
    HandleOutliersLoop(Outcome(frame, <<>>, FALSE, FALSE), outlier_summary, method)

(* No operation called yet *)
NoCall ==
    [ count |-> 0, op |-> "none", args |-> <<>>, before |-> NoResults,
      log_before |-> <<>>, raised |-> FALSE ]

NewCleaner_KeepsReference ==
    /\ self_df = "none"
    /\ df # NoResults
    /\ cleaner_df' = copy(df)
    /\ self_df' = "caller's"
    /\ history' = <<>>
    /\ last_call' = [NoCall EXCEPT !.op = "__init__"]
    /\ UNCHANGED <<df, outcome, profilerState, missingState, outlierState, validatorState>>

(* DataCleaner.__init__ *)
NewCleaner ==
    /\ self_df = "none"
    /\ df # NoResults
    /\ cleaner_df' = copy(df)
    /\ self_df' = "copy"
    /\ history' = <<>>
    /\ last_call' = [NoCall EXCEPT !.op = "__init__"]
    /\ UNCHANGED <<df, outcome, profilerState, missingState, outlierState, validatorState>>

CleanerCall_RewritesLog(op, args, r) ==
    /\ self_df # "none"
    /\ cleaner_df' = r.df
    /\ self_df' = IF r.rebound THEN "copy" ELSE self_df
    /\ df' = IF self_df = "caller's" /\ ~r.rebound THEN r.df ELSE df
    /\ history' = r.log
    /\ last_call' = [ count |-> last_call.count + 1, op |-> op, args |-> args,
                      before |-> cleaner_df, log_before |-> history,
                      raised |-> r.raised ]
    /\ UNCHANGED <<outcome, profilerState, missingState, outlierState, validatorState>>

(* A call of an operation that leaves r: a change in place is a change of  *)
(* the frame self.df names, which is the caller's frame when the cleaner   *)
(* holds a reference to it instead of a copy.                              *)
CleanerCall(op, args, r) ==
    /\ self_df # "none"
    /\ cleaner_df' = r.df
    /\ self_df' = IF r.rebound THEN "copy" ELSE self_df
    /\ df' = IF self_df = "caller's" /\ ~r.rebound THEN r.df ELSE df
    /\ history' = history \o r.log
    /\ last_call' = [ count |-> last_call.count + 1, op |-> op, args |-> args,
                      before |-> cleaner_df, log_before |-> history,
                      raised |-> r.raised ]
    /\ UNCHANGED <<outcome, profilerState, missingState, outlierState, validatorState>>

(* DataCleaner.enforce_types *)
enforce_types(expected_types) ==
    CleanerCall("enforce_types", <<expected_types>>,
                EnforceTypes(cleaner_df, expected_types))

(* DataCleaner.drop_constant_columns *)
drop_constant_columns(constant_cols) ==
    CleanerCall("drop_constant_columns", <<constant_cols>>,
                DropConstantColumns(cleaner_df, constant_cols))

(* DataCleaner.drop_duplicates *)
drop_duplicates ==
    CleanerCall("drop_duplicates", <<>>, DropDuplicates(cleaner_df))

(* DataCleaner.handle_missing_values *)
handle_missing_values(column_analysis) ==
    CleanerCall("handle_missing_values", <<column_analysis>>,
                HandleMissingValues(cleaner_df, column_analysis))

(* DataCleaner.handle_outliers *)
handle_outliers(outlier_summary, method) ==
    CleanerCall("handle_outliers", <<outlier_summary, method>>,
                HandleOutliers(cleaner_df, outlier_summary, method))

-----------------------------------------------------------------------------
(* DataQualityAuditor.run_audit *)

(* main.py _load_config: the defaults of the configuration *)
DefaultWarningThreshold == Rat(5, 100)
DefaultCriticalThreshold == Rat(30, 100)
DefaultIqrMultiplier == Rat(15, 10)
DefaultZscoreThreshold == Rat(3, 1)
DefaultIsolationContamination == Rat(1, 10)
DefaultConstraints == <<>>

(* A configuration with the default thresholds *)
Config(expected_types, constraint_set) ==
    [ outlier_detection |->
          <<DefaultIqrMultiplier, DefaultZscoreThreshold, DefaultIsolationContamination>>,
      missing_values |->
          [ warning_threshold |-> DefaultWarningThreshold,
            critical_threshold |-> DefaultCriticalThreshold ],
      constraints |-> constraint_set,
      expected_types |-> expected_types ]

DefaultConfig == Config(ExpectedTypes(<<>>, <<>>), DefaultConstraints)

(* The configurations of the audited runs: the default one, one with a     *)
(* range constraint and numeric columns to enforce, and one that declares  *)
(* the age categorical.                                                    *)
AuditConfigs ==
    { DefaultConfig,
      Config(ExpectedTypes(<<"age", "ghost">>, <<>>),
             << Entry("age", Rules({"max"}, 0, 100, "")) >>),
      Config(ExpectedTypes(<<>>, <<"age">>), DefaultConstraints) }

(* The statements of run_audit in their order: lines 86-113, 121-143 *)
AnalyzerSteps ==
    << "DatasetProfiler", "generate_profile", "MissingValueAnalyzer", "analyze",
       "OutlierDetector", "detect_all", "DataValidator", "validate_all" >>

CleanerSteps_OutliersBeforeMissing ==
    << "DataCleaner", "enforce_types", "drop_constant_columns", "drop_duplicates",
       "handle_outliers", "handle_missing_values", "to_csv" >>

CleanerSteps ==
    << "DataCleaner", "enforce_types", "drop_constant_columns", "drop_duplicates",
       "handle_missing_values", "handle_outliers", "to_csv" >>

RunAuditSteps_AlwaysCleans(clean) ==
    <<"load_data">> \o AnalyzerSteps \o CleanerSteps \o <<"reports", "done">>

(* Lines 77-180: the cleaner's statements are under `if clean_data:` *)
RunAuditSteps(clean) ==
    <<"load_data">> \o AnalyzerSteps \o (IF clean THEN CleanerSteps ELSE <<>>)
        \o <<"reports", "done">>

(* The statement after a statement of this run *)
Following(step) ==
    LET steps == RunAuditSteps(clean_data)
    IN  steps[(CHOOSE k \in 1..Len(steps) : steps[k] = step) + 1]

(* The statement returns and the next one is reached *)
Advance(step) ==
    /\ pc = step
    /\ pc' = Following(step)
    /\ UNCHANGED <<clean_data, config, result, written>>

(* The statement raises: run_audit catches nothing, the run ends there *)
Abort(step) ==
    /\ pc = step
    /\ pc' = "done"
    /\ result' = "raised"
    /\ UNCHANGED <<clean_data, config, written>>

(* The layouts of the datasets the cleaner is given *)
CleanerSchemas == { << <<"age", "numeric">> >>, << <<"age", "token">> >> }

(* tests/test_cleaner.py test_enforce_types *)
test_enforce_types_data ==
    [ unit    |-> 1,
      columns |-> <<"age">>,
      dtypes  |-> [c \in {"age"} |-> "object"],
      rows    |-> << [c \in {"age"} |-> Str("25")],
                     [c \in {"age"} |-> Str("30")],
                     [c \in {"age"} |-> Str("not_a_number")] >> ]

(* Seven ages, one below the lower fence (0) and one above the upper (60) *)
OutlyingAges == << -100, 20, 25, 30, 35, 40, 200 >>

outliers_both_sides_data ==
    [ unit    |-> 1,
      columns |-> <<"age">>,
      dtypes  |-> [c \in {"age"} |-> "int64"],
      rows    |-> [i \in 1..7 |-> [c \in {"age"} |-> Num(OutlyingAges[i])]] ]

(* Four ages, the largest an outlier that the upper quartile is            *)
(* interpolated from: q3 = 20 + 0.25 * (100 - 20) = 40, upper fence 70     *)
FewAges == << 20, 20, 20, 100 >>

outlier_in_quartile_data ==
    [ unit    |-> 1,
      columns |-> <<"age">>,
      dtypes  |-> [c \in {"age"} |-> "int64"],
      rows    |-> [i \in 1..4 |-> [c \in {"age"} |-> Num(FewAges[i])]] ]

IsCleanerDataset(d) ==
    \/ IsGeneratedDataset(d, CleanerSchemas)
    \/ d = base_test_data
    \/ d = test_enforce_types_data
    \/ d = outliers_both_sides_data
    \/ d = outlier_in_quartile_data

(* Lines 77-79 and load_data: the file is read into self.df, or the read   *)
(* fails and run_audit returns False                                       *)
RunAudit_LoadData ==
    /\ pc = "load_data"
    /\ \/ /\ IsCleanerDataset(df')
          /\ Advance("load_data")
       \/ /\ UNCHANGED df
          /\ pc' = "done"
          /\ result' = "False"
          /\ UNCHANGED <<clean_data, config, written>>
    /\ UNCHANGED <<outcome, profilerState, missingState, outlierState, validatorState,
                   cleanerState>>

(* Line 86 *)
RunAudit_Profiler == NewProfiler /\ Advance("DatasetProfiler")

(* Line 87 *)
RunAudit_GenerateProfile == GenerateProfile /\ Advance("generate_profile")

(* Lines 91-96 *)
RunAudit_MissingAnalyzer ==
    /\ NewMissingAnalyzer(config.missing_values.warning_threshold,
                          config.missing_values.critical_threshold)
    /\ Advance("MissingValueAnalyzer")

(* Line 97 *)
RunAudit_Analyze == Analyze /\ Advance("analyze")

(* Lines 101-107 *)
RunAudit_OutlierDetector ==
    NewOutlierDetector(config.outlier_detection) /\ Advance("OutlierDetector")

(* Line 108 *)
RunAudit_DetectAll == DetectAll /\ Advance("detect_all")

(* Line 112 *)
RunAudit_Validator == NewValidator(config.constraints) /\ Advance("DataValidator")

(* Line 113 *)
RunAudit_ValidateAll ==
    /\ ValidateAll
    /\ IF outcome'["validator"] = "raised"
       THEN Abort("validate_all")
       ELSE Advance("validate_all")

(* Line 121 *)
RunAudit_Cleaner == NewCleaner /\ Advance("DataCleaner")

(* A cleaner stage has returned, or it has raised *)
Returned(step) == IF last_call'.raised THEN Abort(step) ELSE Advance(step)

(* Lines 124-125 *)
RunAudit_EnforceTypes ==
    enforce_types(config.expected_types) /\ Returned("enforce_types")

(* Line 128 *)
RunAudit_DropConstantColumns ==
    /\ drop_constant_columns(profile.metadata.constant_columns)
    /\ Returned("drop_constant_columns")

(* Line 131 *)
RunAudit_DropDuplicates == drop_duplicates /\ Returned("drop_duplicates")

(* Line 134 *)
RunAudit_HandleMissingValues ==
    /\ handle_missing_values(missing_analysis.column_analysis)
    /\ Returned("handle_missing_values")

(* The items of the per-column summary, in the order of their insertion:   *)
(* the order of the columns of the dataset                                 *)
SummaryItems(per_column, d) ==
    LET cols == SelectSeq(d.columns, LAMBDA c : c \in DOMAIN per_column)
    IN  [k \in 1..Len(cols) |-> SummaryEntry(cols[k], per_column[cols[k]].iqr_outliers)]

(* Line 137 *)
RunAudit_HandleOutliers ==
    /\ handle_outliers(SummaryItems(outlier_results.summary.per_column_summary, df), "clip")
    /\ Returned("handle_outliers")

(* Line 143: get_cleaned_data().to_csv writes the cleaner's frame *)
RunAudit_ToCsv ==
    /\ pc = "to_csv"
    /\ pc' = Following("to_csv")
    /\ written' = cleaner_df
    /\ UNCHANGED <<clean_data, config, result>>
    /\ UNCHANGED <<df, outcome, profilerState, missingState, outlierState, validatorState,
                   cleanerState>>

(* Lines 146-180: the reports are written and run_audit returns True *)
RunAudit_Reports ==
    /\ pc = "reports"
    /\ pc' = Following("reports")
    /\ result' = "True"
    /\ UNCHANGED <<clean_data, config, written>>
    /\ UNCHANGED <<df, outcome, profilerState, missingState, outlierState, validatorState,
                   cleanerState>>

-----------------------------------------------------------------------------
(* Specifications *)

Analyzers == {"profiler", "missing_analyzer", "outlier_detector", "validator"}

(* Before any analyzer or cleaner is constructed *)
InitComponents ==
    /\ outcome = [a \in Analyzers |-> "unbuilt"]
    /\ profile = NoResults
    /\ warning_threshold = DefaultWarningThreshold
    /\ critical_threshold = DefaultCriticalThreshold
    /\ missing_analysis = NoResults
    /\ iqr_multiplier = DefaultIqrMultiplier
    /\ zscore_threshold = DefaultZscoreThreshold
    /\ isolation_contamination = DefaultIsolationContamination
    /\ outlier_results = NoResults
    /\ isolation_status = "not run"
    /\ earlier_results = NoResults
    /\ constraints = DefaultConstraints
    /\ validation_results = NoResults
    /\ cleaner_df = NoResults
    /\ self_df = "none"
    /\ history = <<>>
    /\ last_call = NoCall

(* The components used on their own, as the tests do: no run_audit *)
InitCommon ==
    /\ InitComponents
    /\ pc = "none"
    /\ clean_data = FALSE
    /\ config = DefaultConfig
    /\ result = "none"
    /\ written = NoResults

InitOutlier ==
    /\ InitCommon
    /\ (IsDataset(df) \/ df = twenty_rows_data)

NextOutlier ==
    \/ \E params \in DetectorParameters : NewOutlierDetector(params) /\ UNCHANGED auditState
    \/ DetectAll /\ UNCHANGED auditState

SpecOutlier == InitOutlier /\ [][NextOutlier]_vars

(* Two detectors in turn over one dataset, their iqr_multiplier differing *)
MultiplierParameters ==
    { p \in DetectorParameters :
        p[2] = DefaultZscoreThreshold /\ p[3] = DefaultIsolationContamination }

NumericSchemas == { sc \in Schemas : \A k \in 1..Len(sc) : sc[k][2] = "numeric" }

InitOutlierPair ==
    /\ InitCommon
    /\ (IsGeneratedDataset(df, NumericSchemas) \/ df = base_test_data)

NextOutlierPair ==
    \/ \E params \in MultiplierParameters : NewOutlierDetector(params) /\ UNCHANGED auditState
    \/ DetectAll /\ UNCHANGED auditState
    \/ \E params \in MultiplierParameters :
           NewOutlierDetectorAgain(params) /\ UNCHANGED auditState

SpecOutlierPair == InitOutlierPair /\ [][NextOutlierPair]_vars

InitValidator ==
    /\ InitCommon
    /\ IsValidatorDataset(df)

NextValidator ==
    \/ \E cs \in ConstraintSets : NewValidator(cs) /\ UNCHANGED auditState
    \/ ValidateAll /\ UNCHANGED auditState

SpecValidator == InitValidator /\ [][NextValidator]_vars

InitProfiler ==
    /\ InitCommon
    /\ IsDataset(df)

NextProfiler ==
    \/ NewProfiler /\ UNCHANGED auditState
    \/ GenerateProfile /\ UNCHANGED auditState

SpecProfiler == InitProfiler /\ [][NextProfiler]_vars

InitMissing ==
    /\ InitCommon
    /\ IsDataset(df)

NextMissing ==
    \/ \E w \in ThresholdValues, c \in ThresholdValues :
           NewMissingAnalyzer(w, c) /\ UNCHANGED auditState
    \/ Analyze /\ UNCHANGED auditState

SpecMissing == InitMissing /\ [][NextMissing]_vars

(* The four analyzers over one dataset, constructed and run in any order   *)
(* and interleaving                                                        *)
AnalyzerConstraintSets ==
    { DefaultConstraints, << Entry("age", Rules({"max"}, 0, 100, "")) >> }

InitAnalyzers ==
    /\ InitCommon
    /\ IsCleanerDataset(df)

NextAnalyzers ==
    \/ NewProfiler /\ UNCHANGED auditState
    \/ GenerateProfile /\ UNCHANGED auditState
    \/ NewMissingAnalyzer(DefaultWarningThreshold, DefaultCriticalThreshold)
           /\ UNCHANGED auditState
    \/ Analyze /\ UNCHANGED auditState
    \/ NewOutlierDetector(<<DefaultIqrMultiplier, DefaultZscoreThreshold,
                             DefaultIsolationContamination>>) /\ UNCHANGED auditState
    \/ DetectAll /\ UNCHANGED auditState
    \/ \E cs \in AnalyzerConstraintSets : NewValidator(cs) /\ UNCHANGED auditState
    \/ ValidateAll /\ UNCHANGED auditState

SpecAnalyzers == InitAnalyzers /\ [][NextAnalyzers]_vars

(* The frame with its numbers in another unit *)
AtUnit(frame, unit) ==
    [ frame EXCEPT
        !.unit = unit,
        !.rows = [i \in 1..len(frame) |->
                     [c \in Columns(frame) |-> Rescaled(frame.rows[i][c], frame.unit, unit)]] ]

(* What one clip leaves are whole eighths *)
Eighths == 8

(* A second detector, with the parameters of the first, constructed over   *)
(* get_cleaned_data() and run; the findings of the first are kept          *)
RedetectOnCleaned ==
    /\ outcome["outlier_detector"] = "returned"
    /\ earlier_results = NoResults
    /\ last_call.op = "handle_outliers"
    /\ ~last_call.raised
    /\ earlier_results' =
          [ iqr_multiplier |-> iqr_multiplier,
            per_column_summary |-> outlier_results.summary.per_column_summary ]
    /\ LET cleaned == AtUnit(cleaner_df, Eighths)
       IN  IF NumericDfEmpty(cleaned)
           THEN /\ outlier_results' =
                      OutlierResults({"error", "summary"}, NoNumericData, <<>>, 0)
                /\ isolation_status' = "not run"
           ELSE \E iso \in IsolationOutcomes(cleaned, isolation_contamination) :
                   /\ isolation_status' = iso.status
                   /\ outlier_results' =
                         OutlierResults({"summary"}, "",
                                        PerColumn(cleaned, iqr_multiplier, zscore_threshold),
                                        TotalIsoOutliers(iso))
    /\ UNCHANGED <<df, outcome, iqr_multiplier, zscore_threshold, isolation_contamination,
                   profilerState, missingState, validatorState, cleanerState>>

(* The detector with some iqr_multiplier, then a cleaner over a copy of    *)
(* the dataset clipping by the detector's summary, then the detector again *)
(* over the cleaned data                                                   *)
InitDetectThenClip ==
    /\ InitCommon
    /\ IsCleanerDataset(df)

NextDetectThenClip ==
    \/ \E params \in MultiplierParameters : NewOutlierDetector(params) /\ UNCHANGED auditState
    \/ DetectAll /\ UNCHANGED auditState
    \/ outcome["outlier_detector"] = "returned" /\ NewCleaner /\ UNCHANGED auditState
    \/ /\ last_call.count = 0
       /\ handle_outliers(SummaryItems(outlier_results.summary.per_column_summary, df),
                          "clip")
       /\ UNCHANGED auditState
    \/ RedetectOnCleaned /\ UNCHANGED auditState

SpecDetectThenClip == InitDetectThenClip /\ [][NextDetectThenClip]_vars

(* The arguments the cleaner's operations are called with *)
ExpectedTypesArgs ==
    { ExpectedTypes(<<>>, <<>>),
      ExpectedTypes(<<"age", "ghost">>, <<>>),
      ExpectedTypes(<<>>, <<"age">>) }

ConstantColumnsArgs == { <<>>, <<"age">>, <<"ghost">> }

MissingAnalysisArgs ==
    { << Finding("age", "warning") >>,
      << Finding("age", "error"), Finding("ghost", "warning") >>,
      << Finding("salary", "warning") >> }

OutlierSummaryArgs ==
    { << << SummaryEntry("ghost", 1), SummaryEntry("age", 1) >>, "clip" >>,
      << << SummaryEntry("age", 1) >>, "remove" >>,
      << << SummaryEntry("age", 0) >>, "clip" >> }

(* One DataCleaner over a dataset, at most MaxOps operations applied to it *)
InitCleaner ==
    /\ InitCommon
    /\ IsCleanerDataset(df)

(* Another operation may be applied to the cleaner *)
MoreOps == last_call.count < MaxOps /\ UNCHANGED auditState

NextCleaner ==
    \/ NewCleaner /\ UNCHANGED auditState
    \/ \E expected_types \in ExpectedTypesArgs : MoreOps /\ enforce_types(expected_types)
    \/ \E constant_cols \in ConstantColumnsArgs :
           MoreOps /\ drop_constant_columns(constant_cols)
    \/ MoreOps /\ drop_duplicates
    \/ \E column_analysis \in MissingAnalysisArgs :
           MoreOps /\ handle_missing_values(column_analysis)
    \/ \E a \in OutlierSummaryArgs : MoreOps /\ handle_outliers(a[1], a[2])

SpecCleaner == InitCleaner /\ [][NextCleaner]_vars

(* One call of run_audit, of an auditor constructed with some configuration *)
InitAudit ==
    /\ InitComponents
    /\ df = NoResults
    /\ pc = "load_data"
    /\ clean_data \in BOOLEAN
    /\ config \in AuditConfigs
    /\ result = "none"
    /\ written = NoResults

NextAudit ==
    \/ RunAudit_LoadData
    \/ RunAudit_Profiler
    \/ RunAudit_GenerateProfile
    \/ RunAudit_MissingAnalyzer
    \/ RunAudit_Analyze
    \/ RunAudit_OutlierDetector
    \/ RunAudit_DetectAll
    \/ RunAudit_Validator
    \/ RunAudit_ValidateAll
    \/ RunAudit_Cleaner
    \/ RunAudit_EnforceTypes
    \/ RunAudit_DropConstantColumns
    \/ RunAudit_DropDuplicates
    \/ RunAudit_HandleMissingValues
    \/ RunAudit_HandleOutliers
    \/ RunAudit_ToCsv
    \/ RunAudit_Reports

SpecAudit == InitAudit /\ [][NextAudit]_vars

-----------------------------------------------------------------------------
(* Properties of DataValidator.validate_all *)

ValidatorReturned == outcome["validator"] = "returned"
Score == validation_results.summary.data_quality_score
Reported == validation_results.constraint_violations
RecordsOf(col, kind) ==
    {k \in DOMAIN Reported : Reported[k].column = col /\ Reported[k].constraint = kind}

(* C1: the data_quality_score validate_all returns lies in [0, 100], for   *)
(* every dataset and constraint set, also when the dataset has missing     *)
(* cells and the violation penalty alone reaches the floor of 0.           *)
C1_ScoreInRange ==
    ValidatorReturned =>
        /\ Score.num >= 0
        /\ Score.num <= 100 * Score.den

(* A rule whose failure is neither an absent column nor a malformed        *)
(* relationship: a min / max bound on a present column that holds text.    *)
RangeRuleOnText(d, entry) ==
    /\ entry.column \in Columns(d)
    /\ ({"min", "max"} \cap entry.rules.keys) # {}
    /\ \E i \in 1..len(d) : d.rows[i][entry.column].t = "str"

Malformed(d, expr) ==
    \/ expr \notin {"salary >= age", "age >= salary"}
    \/ ~({"salary", "age"} \subseteq Columns(d))

(* C2: validate_all does not raise on a constraint naming an absent column *)
(* or on a malformed relationship; such a column or rule yields no         *)
(* violation record, and every other rule of the constraint set is still   *)
(* evaluated and reported.                                                 *)
C2_SkipsAbsentAndMalformed ==
    outcome["validator"] \in {"returned", "raised"} =>
        /\ (\A k \in DOMAIN constraints : ~RangeRuleOnText(df, constraints[k]))
              => ValidatorReturned
        /\ ValidatorReturned =>
             \A k \in DOMAIN constraints :
                LET col == constraints[k].column
                    rules == constraints[k].rules
                IN  /\ col \notin Columns(df) =>
                          \A j \in DOMAIN Reported : Reported[j].column # col
                    /\ ("relationship" \in rules.keys /\ Malformed(df, rules.relationship))
                          => RecordsOf(col, "business_rule") = {}
                    /\ col \in Columns(df) =>
                          /\ ("min" \in rules.keys
                               /\ \E i \in 1..len(df) : df.rows[i][col].t = "num"
                                                        /\ df.rows[i][col].n < rules.min)
                                => RecordsOf(col, "min_value") # {}
                          /\ ("max" \in rules.keys
                               /\ \E i \in 1..len(df) : df.rows[i][col].t = "num"
                                                        /\ df.rows[i][col].n > rules.max)
                                => RecordsOf(col, "max_value") # {}
                          /\ ("relationship" \in rules.keys
                               /\ ~Malformed(df, rules.relationship)
                               /\ \E i \in 1..len(df) :
                                     ~(/\ df.rows[i]["salary"].t = "num"
                                       /\ df.rows[i]["age"].t = "num"
                                       /\ IF rules.relationship = "salary >= age"
                                          THEN df.rows[i]["salary"].n >= df.rows[i]["age"].n
                                          ELSE df.rows[i]["age"].n >= df.rows[i]["salary"].n))
                                => RecordsOf(col, "business_rule") # {}

(* An absent column first, a malformed relationship second, and the rules  *)
(* of the third entry reported.                                            *)
C2_Witness ==
    /\ ValidatorReturned
    /\ Len(constraints) = 3
    /\ constraints[1].column \notin Columns(df)
    /\ constraints[2].column \in Columns(df)
    /\ Malformed(df, constraints[2].rules.relationship)
    /\ RecordsOf(constraints[3].column, "min_value") # {}
    /\ RecordsOf(constraints[3].column, "max_value") # {}
    /\ Len(Reported) = 2

(* C3: the score is 100 - 1000 * (sum of the records' violation counts /   *)
(* (row_count * column_count)), floored at 0, then 5 less when a cell of   *)
(* the dataset is missing; the divisor is 1 with zero rows or columns.     *)
C3_ScoreFormula ==
    ValidatorReturned =>
        LET T == SeqSum([k \in DOMAIN Reported |-> Reported[k].violations])
            cells == Len(df.rows) * Len(df.columns)
            D == IF cells = 0 THEN 1 ELSE cells
            anyMissing == \E i \in 1..Len(df.rows) : \E c \in Columns(df) :
                              df.rows[i][c].t = "nan"
            floored == IF 1000 * T >= 100 * D THEN 0 ELSE 100 * D - 1000 * T
            expected == IF anyMissing THEN floored - 5 * D ELSE floored
        IN  Score.num * D = expected * Score.den

(* Two records summed, the floor reached, and a missing cell *)
C3_Witness ==
    /\ ValidatorReturned
    /\ Len(Reported) >= 2
    /\ TotalMissing(df) > 0
    /\ Score.num = -5 * Score.den

(* C4: for a constrained column of the dataset and each of its min / max   *)
(* bounds there is a violation record exactly when some row is strictly    *)
(* below the min / above the max; it carries min_value / max_value, the   *)
(* number of such rows, 100 * that number / row count, and severity error. *)
C4_RangeRecords ==
    ValidatorReturned =>
        \A k \in DOMAIN constraints :
            LET col == constraints[k].column
                rules == constraints[k].rules
                below == {i \in 1..Len(df.rows) :
                            df.rows[i][col].t \in {"num", "bool"} /\ df.rows[i][col].n < rules.min}
                above == {i \in 1..Len(df.rows) :
                            df.rows[i][col].t \in {"num", "bool"} /\ df.rows[i][col].n > rules.max}
                Check(kind, present, bad) ==
                    /\ Cardinality(RecordsOf(col, kind)) =
                          (IF present /\ bad # {} THEN 1 ELSE 0)
                    /\ \A j \in RecordsOf(col, kind) :
                          /\ Reported[j].violations = Cardinality(bad)
                          /\ RatEq(Reported[j].percentage,
                                   Rat(100 * Cardinality(bad), Len(df.rows)))
                          /\ Reported[j].severity = "error"
            IN  col \in Columns(df) =>
                   /\ Check("min_value", "min" \in rules.keys, below)
                   /\ Check("max_value", "max" \in rules.keys, above)

(* Scenario A: 10 rows, one age above max 100: one record, on age,         *)
(* max_value, 10%.                                                         *)
C4_Witness ==
    /\ ValidatorReturned
    /\ df = base_test_data
    /\ constraints = << Entry("age", Rules({"max"}, 0, 100, "")) >>
    /\ Len(Reported) = 1
    /\ Reported[1].column = "age"
    /\ Reported[1].constraint = "max_value"
    /\ Reported[1].violations = 1
    /\ RatEq(Reported[1].percentage, Rat(10, 1))

-----------------------------------------------------------------------------
(* Properties of MissingValueAnalyzer.analyze *)

MissingReturned == outcome["missing_analyzer"] = "returned"
Findings == missing_analysis.column_analysis

(* C5: per column, missing_count is the number of missing cells,           *)
(* missing_pct = missing_count / total_rows (0 without rows), and severity *)
(* is error above critical_threshold, else warning above                   *)
(* warning_threshold, else info above 0, else none.                        *)
C5_ColumnFinding ==
    MissingReturned =>
        /\ Len(Findings) = Len(df.columns)
        /\ \A k \in DOMAIN Findings :
              LET col == df.columns[k]
                  f == Findings[k]
                  count == Cardinality({i \in 1..Len(df.rows) : df.rows[i][col].t = "nan"})
                  rows == Len(df.rows)
                  \* missing_pct > t, for a threshold t = t.num / t.den
                  Above(t) == rows > 0 /\ count * t.den > t.num * rows
              IN  /\ f.column = col
                  /\ f.missing_count = count
                  /\ IF rows = 0 THEN f.missing_percentage.num = 0
                     ELSE f.missing_percentage.num * rows
                             = 100 * count * f.missing_percentage.den
                  /\ f.severity = (IF Above(critical_threshold) THEN "error"
                                   ELSE IF Above(warning_threshold) THEN "warning"
                                   ELSE IF count > 0 /\ rows > 0 THEN "info"
                                   ELSE "none")

(* Scenario B: salary with 1 missing of 10 under the default thresholds:   *)
(* missing_count 1, missing_percentage 10.0, severity warning.             *)
C5_Witness ==
    /\ MissingReturned
    /\ df = base_test_data
    /\ warning_threshold = Rat(5, 100)
    /\ critical_threshold = Rat(30, 100)
    /\ Findings[3].column = "salary"
    /\ Findings[3].missing_count = 1
    /\ RatEq(Findings[3].missing_percentage, Rat(10, 1))
    /\ Findings[3].severity = "warning"

SeverityRank(sev) ==
    CASE sev = "none" -> 0 [] sev = "info" -> 1 [] sev = "warning" -> 2 [] sev = "error" -> 3

(* C6: under none < info < warning < error the severity is monotonic in    *)
(* the missing percentage across the columns of a dataset; and with        *)
(* warning_threshold < critical_threshold the tiers are the consecutive    *)
(* ranges {0}, (0, warning], (warning, critical], (critical, 100%].        *)
C6_SeverityMonotonic ==
    MissingReturned =>
        /\ \A j, k \in DOMAIN Findings :
              RatLe(Findings[j].missing_percentage, Findings[k].missing_percentage)
                 => SeverityRank(Findings[j].severity) <= SeverityRank(Findings[k].severity)
        /\ RatLt(warning_threshold, critical_threshold) =>
              \A k \in DOMAIN Findings :
                 LET p == Findings[k].missing_percentage
                     w == Rat(100 * warning_threshold.num, warning_threshold.den)
                     c == Rat(100 * critical_threshold.num, critical_threshold.den)
                     sev == Findings[k].severity
                 IN  /\ sev = "none" <=> p.num = 0
                     /\ sev = "info" <=> (p.num > 0 /\ RatLe(p, w))
                     /\ sev = "warning" <=> (p.num > 0 /\ RatLt(w, p) /\ RatLe(p, c))
                     /\ sev = "error" <=> (p.num > 0 /\ RatLt(c, p))

(* Two columns of one dataset in different tiers, the thresholds ordered *)
C6_Witness ==
    /\ MissingReturned
    /\ RatLt(warning_threshold, critical_threshold)
    /\ \E j, k \in DOMAIN Findings :
          /\ RatLt(Findings[j].missing_percentage, Findings[k].missing_percentage)
          /\ Findings[j].severity = "warning"
          /\ Findings[k].severity = "error"

-----------------------------------------------------------------------------
(* Properties of DatasetProfiler.generate_profile *)

ProfilerReturned == outcome["profiler"] = "returned"

DistinctValues(col) ==
    {df.rows[i][col] : i \in {r \in 1..Len(df.rows) : df.rows[r][col].t # "nan"}}

(* C7: a column is listed in metadata.constant_columns iff it has at most  *)
(* one distinct non-missing value, and is_constant is true exactly for the *)
(* listed columns.                                                         *)
C7_ConstantColumns ==
    ProfilerReturned =>
        \A col \in Columns(df) :
            LET listed == \E k \in DOMAIN profile.metadata.constant_columns :
                              profile.metadata.constant_columns[k] = col
            IN  /\ listed <=> Cardinality(DistinctValues(col)) <= 1
                /\ profile.columns[col].is_constant <=> listed

(* An all-missing column and a column of identical strings, both listed,   *)
(* next to none: a dataset with a varying column.                          *)
C7_Witness ==
    /\ ProfilerReturned
    /\ Len(df.columns) = 2
    /\ Len(df.rows) >= 2
    /\ \A i \in 1..Len(df.rows) : df.rows[i][df.columns[1]].t = "nan"
    /\ \A i \in 1..Len(df.rows) : df.rows[i][df.columns[2]] = Str("IT")
    /\ profile.metadata.constant_columns = df.columns

(* C8: a numeric column with no value left once its missing values are     *)
(* removed (rows all missing, or no rows) has mean, std, min, max and      *)
(* median reported as None.                                                *)
C8_EmptyNumericStatsAreNone ==
    ProfilerReturned =>
        \A col \in Columns(df) :
            (df.dtypes[col] \in {"int64", "float64"} /\ DistinctValues(col) = {}) =>
                LET st == profile.columns[col]
                IN  /\ st.mean.tag = "None"
                    /\ st.std.tag = "None"
                    /\ st.min.tag = "None"
                    /\ st.max.tag = "None"
                    /\ st.median.tag = "None"

-----------------------------------------------------------------------------
(* Properties of OutlierDetector.detect_all *)

OutlierReturned == outcome["outlier_detector"] = "returned"
PerColumnSummary == outlier_results.summary.per_column_summary

IsNumericColumn(col) == df.dtypes[col] \in {"int64", "float64"}

(* C9: the result carries the 'no numeric data' error marker, with an      *)
(* empty per-column summary and total_ml_outliers = 0, exactly when no     *)
(* numeric column of the dataset has a non-missing value.                  *)
C9_NoNumericDataMarker ==
    OutlierReturned =>
        LET usable == {c \in Columns(df) : IsNumericColumn(c) /\ DistinctValues(c) # {}}
        IN  /\ ("error" \in outlier_results.keys) <=> (usable = {})
            /\ ("error" \in outlier_results.keys) =>
                  /\ outlier_results.error = "No numeric data available for outlier detection"
                  /\ DOMAIN PerColumnSummary = {}
                  /\ outlier_results.summary.total_ml_outliers = 0

(* The marker on a dataset that has rows and text, its numeric column all  *)
(* missing.                                                                *)
C9_Witness ==
    /\ OutlierReturned
    /\ "error" \in outlier_results.keys
    /\ df.columns = <<"salary", "department">>
    /\ Len(df.rows) >= 2
    /\ \A i \in 1..Len(df.rows) : df.rows[i]["department"].t = "str"

(* C10: per_column_summary has a finding for a column iff the column is    *)
(* numeric and has more than one distinct non-missing value.               *)
C10_FindingPerVaryingNumericColumn ==
    OutlierReturned =>
        /\ DOMAIN PerColumnSummary \subseteq Columns(df)
        /\ \A col \in Columns(df) :
              (col \in DOMAIN PerColumnSummary)
                 <=> (IsNumericColumn(col) /\ Cardinality(DistinctValues(col)) > 1)

(* Scenario D: a column of identical strings gets no finding, the varying  *)
(* numeric column next to it does.                                         *)
C10_Witness ==
    /\ OutlierReturned
    /\ df.columns = <<"salary", "department">>
    /\ Len(df.rows) >= 2
    /\ \A i \in 1..Len(df.rows) : df.rows[i]["department"] = Str("IT")
    /\ DOMAIN PerColumnSummary = {"salary"}

EarlierKept == earlier_results # NoResults
EarlierSummary == earlier_results.per_column_summary

(* C11: for every numeric column with more than one distinct value, the    *)
(* iqr_outliers count of detect_all does not increase with iqr_multiplier: *)
(* of two detectors over one dataset with multipliers 0 <= k1 <= k2, the   *)
(* one with k2 reports at most the count of the one with k1.               *)
C11_IqrCountMonotonic ==
    (OutlierReturned /\ EarlierKept) =>
        \A col \in Columns(df) :
            (IsNumericColumn(col) /\ Cardinality(DistinctValues(col)) > 1) =>
                /\ col \in DOMAIN EarlierSummary
                /\ col \in DOMAIN PerColumnSummary
                /\ LET k_earlier == earlier_results.iqr_multiplier
                       n_earlier == EarlierSummary[col].iqr_outliers
                       n_now == PerColumnSummary[col].iqr_outliers
                   IN  /\ (k_earlier.num >= 0 /\ RatLe(k_earlier, iqr_multiplier))
                            => n_now <= n_earlier
                       /\ (iqr_multiplier.num >= 0 /\ RatLe(iqr_multiplier, k_earlier))
                            => n_earlier <= n_now

(* The fixture's ages under multiplier 0 and then under a larger one: the  *)
(* count falls, and an outlier is left.                                    *)
C11_Witness ==
    /\ OutlierReturned
    /\ EarlierKept
    /\ df = base_test_data
    /\ earlier_results.iqr_multiplier = Rat(0, 1)
    /\ RatLt(earlier_results.iqr_multiplier, iqr_multiplier)
    /\ EarlierSummary["age"].iqr_outliers = 6
    /\ PerColumnSummary["age"].iqr_outliers = 1

(* C12: the severity of a finding is high if its iqr_outliers count is     *)
(* above 5% of the row count of the dataset (rows missing in the column    *)
(* included), medium if the count is above 0 but not above that 5%, and    *)
(* low only if the count is 0.                                             *)
C12_SeverityOfFinding ==
    OutlierReturned =>
        \A col \in DOMAIN PerColumnSummary :
            LET f == PerColumnSummary[col]
                above == 100 * f.iqr_outliers > 5 * Len(df.rows)
            IN  /\ f.severity \in {"high", "medium", "low"}
                /\ f.severity = "high" <=> above
                /\ f.severity = "medium" <=> (f.iqr_outliers > 0 /\ ~above)
                /\ f.severity = "low" <=> f.iqr_outliers = 0

(* One outlier in twenty rows, one of them missing in the column: 5% of    *)
(* the rows, not above it, so medium.                                      *)
C12_Witness ==
    /\ OutlierReturned
    /\ Len(df.rows) = 20
    /\ \E i \in 1..Len(df.rows) : df.rows[i]["age"].t = "nan"
    /\ PerColumnSummary["age"].iqr_outliers = 1
    /\ PerColumnSummary["age"].severity = "medium"

(* C13: when the multivariate detector raises, detect_all does not raise:  *)
(* it returns every per-column finding with total_ml_outliers = 0; and,    *)
(* raised or not, the ML count is only the dataset-wide total: every       *)
(* per-column isolation_outliers is 0.                                     *)
C13_IsolationFailureIsNeutral ==
    /\ outcome["outlier_detector"] # "raised"
    /\ isolation_status = "raised" =>
          /\ OutlierReturned
          /\ outlier_results.summary.total_ml_outliers = 0
          /\ "error" \notin outlier_results.keys
          /\ \A col \in Columns(df) :
                (IsNumericColumn(col) /\ Cardinality(DistinctValues(col)) > 1) =>
                    /\ col \in DOMAIN PerColumnSummary
                    /\ PerColumnSummary[col] =
                          PerColumn(df, iqr_multiplier, zscore_threshold)[col]
    /\ OutlierReturned =>
          \A col \in DOMAIN PerColumnSummary : PerColumnSummary[col].isolation_outliers = 0

(* The forest raised on the fixture, whose age finding still counts its    *)
(* IQR outlier.                                                            *)
C13_Witness ==
    /\ OutlierReturned
    /\ isolation_status = "raised"
    /\ df = base_test_data
    /\ PerColumnSummary["age"].iqr_outliers = 1
    /\ outlier_results.summary.total_ml_outliers = 0

-----------------------------------------------------------------------------
(* Properties of DataCleaner *)

CleanerBuilt == self_df # "none"

(* C14: no operation of the cleaner, in any sequence, changes the dataset  *)
(* its constructor was given: not its columns, its dtypes, its rows or a   *)
(* cell of it.                                                             *)
C14_CallerDatasetUntouched == [][CleanerBuilt => SameFrame(df', df)]_vars

(* Two operations have been applied and the cleaner's frame differs from   *)
(* the caller's dataset.                                                   *)
C14_Witness ==
    /\ CleanerBuilt
    /\ last_call.count >= 2
    /\ df = base_test_data
    /\ ~SameFrame(cleaner_df, df)

(* A step that is a call of the operation *)
IsCallOf(op) == last_call'.op = op /\ last_call'.count = last_call.count + 1

(* after holds the first occurrence of each distinct row of before, in the *)
(* order of before, and nothing else                                       *)
KeepsFirstOccurrences(before, after) ==
    /\ Len(after) = Cardinality(Range(before))
    /\ \A i \in 1..Len(before) :
          (\A j \in 1..(i - 1) : before[j] # before[i]) =>
              after[Cardinality({before[j] : j \in 1..i})] = before[i]

(* C15: drop_duplicates keeps the first occurrence of each distinct row,   *)
(* in order (of a frame without columns it keeps every row); applied right *)
(* after itself it leaves the rows as they are and adds nothing to the     *)
(* action log.                                                             *)
C15_DropDuplicatesIdempotent ==
    [][IsCallOf("drop_duplicates") =>
          /\ ~last_call'.raised
          /\ cleaner_df'.columns = cleaner_df.columns
          /\ cleaner_df'.dtypes = cleaner_df.dtypes
          /\ IF Len(cleaner_df.columns) = 0
             THEN cleaner_df'.rows = cleaner_df.rows
             ELSE KeepsFirstOccurrences(cleaner_df.rows, cleaner_df'.rows)
          /\ last_call.op = "drop_duplicates" =>
                /\ cleaner_df' = cleaner_df
                /\ history' = history]_vars

(* drop_duplicates twice in a row on three rows, two of them equal: the    *)
(* first call dropped one and logged it, the second added nothing.         *)
C15_Witness ==
    /\ last_call.op = "drop_duplicates"
    /\ last_call.count = 2
    /\ len(df) = 3
    /\ len(cleaner_df) = 2
    /\ history = << <<"Dropped duplicate rows", 1>> >>
    /\ last_call.log_before = history
    /\ last_call.before = cleaner_df

(* The text of the cell spells a number *)
Spells(c) == c.t = "str" /\ (c.s = "number" \/ \E p \in NumericTokens : p[1] = c.s)

(* The cell a is the number the text of the cell b spells, n / unit *)
IsNumberSpelled(a, b, unit) ==
    /\ a.t = "num"
    /\ IF b.s = "number" THEN a.n = b.n
       ELSE \E p \in NumericTokens : p[1] = b.s /\ 2 * a.n = p[2] * unit

MissingCount(frame, col) == Cardinality({i \in 1..len(frame) : isna(frame.rows[i][col])})

(* C16: enforce_types never raises and, for a column listed as numeric     *)
(* (and not as categorical too), leaves a numeric column in which a text   *)
(* that spells a number is that number, any other text is missing, numbers *)
(* and missing cells are as before; the newly missing cells are as many as *)
(* the texts that spell no number; the rows are as many, in their order,   *)
(* the other columns untouched.                                            *)
C16_EnforceNumeric ==
    last_call.op = "enforce_types" =>
        LET before == last_call.before
            expected_types == last_call.args[1]
            numeric == Range(expected_types.numeric_columns) \cap Columns(before)
            categorical == Range(expected_types.categorical_columns)
        IN  /\ ~last_call.raised
            /\ len(cleaner_df) = len(before)
            /\ cleaner_df.columns = before.columns
            /\ \A col \in numeric \ categorical :
                  /\ cleaner_df.dtypes[col] # "object"
                  /\ \A i \in 1..len(before) :
                        LET b == before.rows[i][col]
                            a == cleaner_df.rows[i][col]
                        IN  CASE b.t = "str" /\ Spells(b) ->
                                     IsNumberSpelled(a, b, before.unit)
                              [] b.t = "str" -> isna(a)
                              [] OTHER -> a = b
                  /\ MissingCount(cleaner_df, col) - MissingCount(before, col) =
                        Cardinality({i \in 1..len(before) :
                                        /\ before.rows[i][col].t = "str"
                                        /\ ~Spells(before.rows[i][col])})
            /\ \A col \in Columns(before) \ (numeric \cup categorical) :
                  Column(cleaner_df, col) = Column(before, col)

(* tests/test_cleaner.py test_enforce_types: '25', '30' and 'not_a_number' *)
(* become 25, 30 and one missing cell                                      *)
C16_Witness ==
    /\ last_call.op = "enforce_types"
    /\ df = test_enforce_types_data
    /\ last_call.before = copy(df)
    /\ "age" \in Range(last_call.args[1].numeric_columns)
    /\ Column(cleaner_df, "age") = << Num(25 * Scale), Num(30 * Scale), NaN >>
    /\ cleaner_df.dtypes["age"] = "float64"
    /\ history = << <<"Enforced numeric type for", "age">> >>

(* C17: after handle_missing_values, no column that a finding names and    *)
(* the working copy has holds a missing cell.                              *)
C17_NoMissingCellLeft ==
    (last_call.op = "handle_missing_values" /\ ~last_call.raised) =>
        \A k \in DOMAIN last_call.args[1] :
            LET col == last_call.args[1][k].column
            IN  col \in Columns(cleaner_df) => MissingCount(cleaner_df, col) = 0

(* The fences of a column as the working copy had it before the call,      *)
(* times 8: 8 * (q1 - 1.5 * (q3 - q1)) = 5 * (4 * q1) - 3 * (4 * q3)       *)
LowerFence8(frame, col) ==
    5 * Quantile4(Column(frame, col), 1) - 3 * Quantile4(Column(frame, col), 3)

UpperFence8(frame, col) ==
    5 * Quantile4(Column(frame, col), 3) - 3 * Quantile4(Column(frame, col), 1)

HasValue(frame, col) == \E i \in 1..len(frame) : frame.rows[i][col].t = "num"

(* The columns a call of handle_outliers is to treat *)
Treated(summary, frame) ==
    { summary[k].column : k \in { j \in DOMAIN summary :
          summary[j].column \in Columns(frame) /\ summary[j].iqr_outliers >= 1 } }

(* C18: after handle_outliers(summary, 'clip') has returned, every value   *)
(* of a treated column lies within the fences of the column as it was      *)
(* before the call: a value above the upper fence is now the upper fence,  *)
(* one below the lower fence the lower fence, any other cell is as it was; *)
(* no row is removed, and the columns not treated are unchanged.           *)
C18_ClipToFences ==
    (/\ last_call.op = "handle_outliers"
     /\ last_call.args[2] = "clip"
     /\ ~last_call.raised) =>
        LET before == last_call.before
            treated == Treated(last_call.args[1], before)
        IN  /\ len(cleaner_df) = len(before)
            /\ cleaner_df.columns = before.columns
            /\ \A col \in treated :
                  \A i \in 1..len(before) :
                      ~HasValue(before, col) \/
                      LET b == before.rows[i][col]
                          a == cleaner_df.rows[i][col]
                      IN  /\ a.t = "num" =>
                                /\ LowerFence8(before, col) <= 8 * a.n
                                /\ 8 * a.n <= UpperFence8(before, col)
                          /\ CASE b.t = "num" /\ 8 * b.n > UpperFence8(before, col) ->
                                      a.t = "num" /\ 8 * a.n = UpperFence8(before, col)
                               [] b.t = "num" /\ 8 * b.n < LowerFence8(before, col) ->
                                      a.t = "num" /\ 8 * a.n = LowerFence8(before, col)
                               [] OTHER -> a = b
            /\ \A col \in treated :
                  ~HasValue(before, col) => Column(cleaner_df, col) = Column(before, col)
            /\ \A col \in Columns(before) \ treated :
                  /\ Column(cleaner_df, col) = Column(before, col)
                  /\ cleaner_df.dtypes[col] = before.dtypes[col]

(* Scenario C: the age of 150 of the fixture is clipped to the upper fence *)
(* 87.5, now the maximum of the column.                                    *)
C18_Witness ==
    /\ last_call.op = "handle_outliers"
    /\ last_call.args[2] = "clip"
    /\ ~last_call.raised
    /\ df = base_test_data
    /\ last_call.before = copy(df)
    /\ UpperFence8(last_call.before, "age") = 700 * Scale
    /\ cleaner_df.rows[10]["age"] = Num((175 * Scale) \div 2)
    /\ \A i \in 1..10 : 2 * cleaner_df.rows[i]["age"].n <= 175 * Scale
    /\ history = << <<"Clipped outliers in", "age">> >>

-----------------------------------------------------------------------------
(* Properties of DataQualityAuditor.run_audit *)

(* The cleaning stages in the order the claim gives them *)
StageOrder ==
    << "enforce_types", "drop_constant_columns", "drop_duplicates",
       "handle_missing_values", "handle_outliers" >>

(* C19: in a run with cleaning requested the k-th operation called on the  *)
(* cleaner is the k-th stage of the fixed order (so each stage runs at     *)
(* most once, and in order); a stage is reached only when the stages       *)
(* before it have returned; the cleaned dataset is written only after      *)
(* handle_outliers, the fifth call, has returned, and it is the cleaner's  *)
(* frame; a run that returns True has run every stage once.                *)
C19_StagesInOrder ==
    clean_data =>
        /\ last_call.count <= Len(StageOrder)
        /\ last_call.count >= 1 => last_call.op = StageOrder[last_call.count]
        /\ \A k \in DOMAIN StageOrder :
              pc = StageOrder[k] => last_call.count = k - 1 /\ ~last_call.raised
        /\ written # NoResults =>
              /\ last_call.op = "handle_outliers"
              /\ last_call.count = Len(StageOrder)
              /\ ~last_call.raised
              /\ written = cleaner_df
        /\ result = "True" =>
              /\ last_call.count = Len(StageOrder)
              /\ written # NoResults

(* A run over the fixture with cleaning has returned True: five stages     *)
(* called, the age clipped by the last one, the cleaned dataset written.   *)
C19_Witness ==
    /\ clean_data
    /\ pc = "done"
    /\ result = "True"
    /\ df = base_test_data
    /\ last_call.count = 5
    /\ last_call.op = "handle_outliers"
    /\ written = cleaner_df
    /\ history[Len(history)] = <<"Clipped outliers in", "age">>

(* Every analyzer has returned its results *)
AnalyzersReturned ==
    /\ \A a \in Analyzers : outcome[a] = "returned"
    /\ profile # NoResults
    /\ missing_analysis # NoResults
    /\ outlier_results # NoResults
    /\ validation_results # NoResults

(* C20: a cleaner is constructed, and an operation of it called, only when *)
(* the four analyzers have returned their results; without cleaning        *)
(* requested no cleaner is constructed, no operation called and nothing    *)
(* written; and a run whose loading fails returns False with no analyzer   *)
(* and no cleaner constructed.                                             *)
C20_CleanerAfterAnalyzers ==
    /\ (CleanerBuilt \/ last_call.count >= 1) => AnalyzersReturned
    /\ ~clean_data =>
          /\ ~CleanerBuilt
          /\ last_call = NoCall
          /\ written = NoResults
    /\ result = "False" =>
          /\ df = NoResults
          /\ \A a \in Analyzers : outcome[a] = "unbuilt"
          /\ ~CleanerBuilt
          /\ last_call = NoCall
          /\ pc = "done"

(* The first stage of the cleaner has run, after the four analyzers *)
C20_Witness ==
    /\ clean_data
    /\ pc = "drop_constant_columns"
    /\ last_call.op = "enforce_types"
    /\ AnalyzersReturned
    /\ df = base_test_data

-----------------------------------------------------------------------------
(* Further properties of DataCleaner *)

(* s is a prefix of t *)
IsPrefix(s, t) == Len(s) <= Len(t) /\ SubSeq(t, 1, Len(s)) = s

(* C21: the action log is empty right after the construction of the        *)
(* cleaner, and the log before any operation is a prefix of the log after  *)
(* it.                                                                     *)
C21_LogAppendOnly ==
    [][/\ CleanerBuilt => IsPrefix(history, history')
       /\ last_call'.op = "__init__" => history' = <<>>]_vars

(* Two operations have each added an entry to the log *)
C21_Witness ==
    /\ last_call.count = 2
    /\ Len(last_call.log_before) = 1
    /\ Len(history) = 2
    /\ IsPrefix(last_call.log_before, history)

-----------------------------------------------------------------------------
(* Properties of the analyzers together *)

(* The result each analyzer has returned is the one of the dataset and of  *)
(* its own parameters (the count of the isolation forest left aside)       *)
ResultsOfDatasetOnly ==
    /\ outcome["profiler"] = "returned" => profile = Profile(df)
    /\ outcome["missing_analyzer"] = "returned" =>
          missing_analysis = MissingResults(df, warning_threshold, critical_threshold)
    /\ outcome["outlier_detector"] = "returned" =>
          /\ outlier_results.summary.per_column_summary =
                IF NumericDfEmpty(df) THEN <<>>
                ELSE PerColumn(df, iqr_multiplier, zscore_threshold)
          /\ ("error" \in outlier_results.keys) = NumericDfEmpty(df)
    /\ outcome["validator"] = "returned" =>
          validation_results = ValidationResults(df, constraints)
    /\ outcome["validator"] = "raised" => ValidatorRaises(df, constraints)

(* C22: no step of an analyzer changes the dataset, and in every order and *)
(* interleaving of the four the result of each is the one of the dataset   *)
(* and of its own parameters.                                              *)
C22_AnalyzersReadOnly == [][df' = df]_vars /\ []ResultsOfDatasetOnly

(* The validator and the outlier detector have returned over the fixture   *)
(* before the profiler, constructed, has run and before the missing-value  *)
(* analyzer is constructed.                                                *)
C22_Witness ==
    /\ df = base_test_data
    /\ outcome["validator"] = "returned"
    /\ outcome["outlier_detector"] = "returned"
    /\ outcome["profiler"] = "idle"
    /\ outcome["missing_analyzer"] = "unbuilt"

-----------------------------------------------------------------------------
(* Properties of DataCleaner.handle_outliers applied again *)

(* A step that calls handle_outliers with 'clip' right after a call of it  *)
(* with the same summary, both returning                                   *)
ClipsAgain ==
    /\ IsCallOf("handle_outliers")
    /\ last_call.op = "handle_outliers"
    /\ last_call'.args = last_call.args
    /\ last_call.args[2] = "clip"
    /\ ~last_call.raised
    /\ ~last_call'.raised

(* The quartiles of the column are the same in two frames of one unit *)
SameQuartiles(a, b, col) ==
    /\ a.unit = b.unit
    /\ HasValue(a, col) = HasValue(b, col)
    /\ HasValue(a, col) =>
          /\ Quantile4(Column(a, col), 1) = Quantile4(Column(b, col), 1)
          /\ Quantile4(Column(a, col), 3) = Quantile4(Column(b, col), 3)

(* C23 as stated: a second handle_outliers(summary, 'clip') in a row       *)
(* changes no cell value.                                                  *)
C23_ClipIdempotent == [][ClipsAgain => cleaner_df'.rows = cleaner_df.rows]_vars

(* C23, amended: the second application changes no value of a treated      *)
(* column whose quartiles the first application left as they were; in any  *)
(* case it leaves every value within the fences of the first application,  *)
(* removes no row and changes no other column.                             *)
C23_ClipIdempotentWhenQuartilesKept ==
    [][ClipsAgain =>
          LET first == last_call.before
              treated == Treated(last_call.args[1], first)
          IN  /\ len(cleaner_df') = len(cleaner_df)
              /\ \A col \in treated :
                    /\ SameQuartiles(first, cleaner_df, col) =>
                          Column(cleaner_df', col) = Column(cleaner_df, col)
                    /\ \A i \in 1..len(cleaner_df) :
                          LET a == cleaner_df'.rows[i][col]
                          IN  (a.t = "num" /\ HasValue(first, col)) =>
                                 /\ LowerFence8(first, col) <= 8 * a.n
                                 /\ 8 * a.n <= UpperFence8(first, col)
              /\ \A col \in Columns(first) \ treated :
                    Column(cleaner_df', col) = Column(cleaner_df, col)]_vars

(* The fixture clipped twice: 150 became 87.5 and stays *)
C23_Witness ==
    /\ last_call.op = "handle_outliers"
    /\ last_call.count = 2
    /\ last_call.args[2] = "clip"
    /\ df = base_test_data
    /\ history = << <<"Clipped outliers in", "age">>, <<"Clipped outliers in", "age">> >>
    /\ last_call.before = cleaner_df
    /\ cleaner_df.rows[10]["age"] = Num((175 * Scale) \div 2)

-----------------------------------------------------------------------------
(* Properties of the cleaner against the detector *)

(* C24: after handle_outliers(summary, 'clip') with the summary of a       *)
(* detector of multiplier k, the detector with the same k over the cleaned *)
(* data reports no IQR outlier in a column the summary listed with some.   *)
C24_NoIqrOutlierAfterClip ==
    (EarlierKept /\ last_call.op = "handle_outliers") =>
        \A col \in DOMAIN EarlierSummary :
            (/\ EarlierSummary[col].iqr_outliers >= 1
             /\ col \in DOMAIN PerColumnSummary) =>
                PerColumnSummary[col].iqr_outliers = 0

(* The value lies strictly outside the fences of the column of the frame *)
StrictlyOutside(c, frame, col) ==
    /\ c.t = "num"
    /\ HasValue(frame, col)
    /\ \/ 8 * c.n < LowerFence8(frame, col)
       \/ 8 * c.n > UpperFence8(frame, col)

(* C25: after handle_outliers(summary, 'remove') has returned, the rows    *)
(* left are the rows of the working copy before the call whose value in    *)
(* the treated column is not strictly outside the fences: the rows within  *)
(* the fences and the rows whose value is missing are kept, in order.      *)
C25_RemoveOnlyOutside ==
    (/\ last_call.op = "handle_outliers"
     /\ last_call.args[2] = "remove"
     /\ ~last_call.raised) =>
        LET before == last_call.before
        IN  \A col \in Treated(last_call.args[1], before) :
                cleaner_df.rows =
                    SelectSeq(before.rows, LAMBDA row : ~StrictlyOutside(row[col], before, col))

-----------------------------------------------------------------------------
(* Properties of the action log against the working copy *)

(* An operation has been applied to the cleaner *)
Called == CleanerBuilt /\ last_call.count >= 1

(* The last operation left the working copy as it was *)
Unchanged == cleaner_df = last_call.before

(* C26: an operation that leaves the working copy unchanged (its columns, *)
(* dtypes, rows and cells) leaves the action log unchanged.                *)
C26_NoChangeNoLog == (Called /\ Unchanged) => history = last_call.log_before

-----------------------------------------------------------------------------
(* Properties of the cleaner's errors *)

(* C27: no operation of the cleaner raises because a column name it is     *)
(* given is not in the working copy: enforce_types, drop_constant_columns  *)
(* and handle_missing_values always return, and handle_outliers raises     *)
(* only for a treated column that is in the working copy and holds text    *)
(* or booleans.                                                            *)
C27_AbsentColumnNeverRaises ==
    (Called /\ last_call.raised) =>
        /\ last_call.op = "handle_outliers"
        /\ \E col \in Treated(last_call.args[1], last_call.before) :
               QuantileRaises(last_call.before, col)

====
